---- MODULE Spec2Model ----
(***************************************************************************)
(* Session tracker of rescuetime-linux-mutter (active-window.go):          *)
(* ActivityTracker, its aggregation into per-application summaries, and    *)
(* the poll/submit control loop monitorWindowChanges.                      *)
(* Time is counted in whole seconds.                                       *)
(***************************************************************************)
EXTENDS Integers, Sequences, FiniteSets, TLC

\* ------------------------------------------------------------------------
\* Program constants
\* ------------------------------------------------------------------------
defaultMergeThreshold == 30

defaultMinDuration == 10

\* SubmitActivities skips summaries under 5 minutes
MinSubmitDuration == 300

\* previewSubmission skips summaries under 1 minute
MinPreviewDuration == 60

\* maxOfflineDuration, in minutes
MaxOfflineMinutes == 240

\* rescuetime: maxAPIRetries; baseRetryDelay in seconds (the webhook client
\* declares the same delay)
maxAPIRetries == 3
baseRetryDelay == 1

\* webhook: maxRetries
maxRetries == 3

\* the zero time.Time (EndTime of a session that has not ended)
ZeroTime == 0 - 1

\* ------------------------------------------------------------------------
\* Bounds of the model
\* ------------------------------------------------------------------------
\* the clock advances at most MaxTicks times
MaxTicks == 3

\* the writer starts no session once MaxSessions entries are stored
MaxSessions == 2

\* the clock of the control loop advances at most MaxLoopTicks times
MaxLoopTicks == 3

\* amounts of time (seconds) that may pass between two events of the control
\* loop: less than the minimum duration, the minimum duration, five minutes
LoopDeltas == {5, 10, 300}

\* amounts of time (seconds) that may pass between two operations: less than
\* the minimum duration, the minimum duration, the merge threshold, more
\* than the merge threshold
Deltas == {5, 10, 30, 35}

Apps == {"firefox", "code"}

\* the windows the tracker is called with: application class and title
Windows == {<<"firefox", "t1">>, <<"code", "t1">>}

\* the windows the focus source reports to the control loop, which also
\* compares titles
LoopWindows == Windows \cup {<<"firefox", "t2">>}

\* ------------------------------------------------------------------------
\* State
\* ------------------------------------------------------------------------
VARIABLES
  now,             \* the wall clock (time.Now())
  ticks,           \* how many times the clock has advanced
  currentSession,  \* at.currentSession: <<>> is nil, <<s>> points to s
  sessions,        \* at.sessions
  ignoredApps,     \* at.ignoredApps (the keys mapped to true)
  waiting,         \* the applications of the StartSession calls whose isAppIgnored check answered false and that have not taken the write lock yet
  summaries,       \* the map a GetActivitySummaries call has just returned (empty after any other step)
  lastOp,          \* the last operation that ran, with its inputs
  lpc,             \* position of monitorWindowChanges
  mode,            \* "submit", "dryrun" or "none" (submitToAPI / dryRun flags)
  lastAppClass,    \* monitorWindowChanges: lastAppClass
  lastWindowTitle, \* monitorWindowChanges: lastWindowTitle
  wasIdle,         \* monitorWindowChanges: wasIdle
  submitResult,    \* outcome per application of the SubmitActivities or previewSubmission call that has just returned (empty after any other step)
  mu,              \* at.mu: whether a writer holds it, and how many readers do
  wpc,             \* position of the writer goroutine inside its tracker call
  wcall,           \* the tracker call the writer is making, with its arguments
  committed,       \* the tracker as the writer's last returned call left it
  rpc,             \* position of each reader inside GetActivitySummaries
  racc,            \* each reader's local summaries map
  pending,         \* at.mu: the goroutine whose Lock() waits for the readers to leave ("" if none)
  gpc,             \* position of each caller goroutine inside its tracker call
  gcall,           \* the tracker call each caller is making, and the function it is in
  holds,           \* what each caller holds of at.mu: the write lock, and how many read locks
  sink,            \* which client submits: "rescuetime", "postgres" or "webhook"
  hasNativeCredentials, \* rescuetime.Client: DataKey or AccountKey is set
  queue,           \* the summaries SubmitActivities has still to go through
  spc,             \* position of the submitting goroutine
  attempt,         \* the attempt counter of the retry loop that is running
  tryBearerAuth,   \* SubmitNative: tryBearerAuth
  sent,            \* requests sent for the summary in hand, per endpoint
  slept,           \* delays slept for the summary in hand, per endpoint
  lastResp,        \* the answer to the request sent last
  results,         \* outcome of each summary SubmitActivities is done with
  fn,              \* the function of the clients that is called on its own
  arg,             \* its argument
  returned,        \* whether it has returned
  ret              \* what it has returned

trackerVars == <<currentSession, sessions, ignoredApps>>

callVars == <<waiting>>

loopVars == <<lpc, mode, lastAppClass, lastWindowTitle, wasIdle, submitResult>>

muVars == <<pending, gpc, gcall, holds>>

lockVars == <<mu, wpc, wcall, committed, rpc, racc, muVars>>

sinkVars == <<sink, hasNativeCredentials, queue, spc, attempt, tryBearerAuth,
              sent, slept, lastResp, results>>

fnVars == <<fn, arg, returned, ret>>

vars == <<now, ticks, currentSession, sessions, ignoredApps, waiting,
          summaries, lastOp,
          lpc, mode, lastAppClass, lastWindowTitle, wasIdle, submitResult,
          mu, wpc, wcall, committed, rpc, racc, pending, gpc, gcall, holds,
          sink, hasNativeCredentials, queue, spc, attempt, tryBearerAuth,
          sent, slept, lastResp, results, fn, arg, returned, ret>>

\* ------------------------------------------------------------------------
\* ActivitySession and ActivityTracker
\* ------------------------------------------------------------------------
ActivitySession(start, app, title) ==
  [StartTime |-> start, EndTime |-> ZeroTime, AppClass |-> app,
   WindowTitle |-> title, Duration |-> 0, Active |-> TRUE]

\* a tracker value: the fields the operations read and write
Tracker(cur, sess) == [currentSession |-> cur, sessions |-> sess]

\* at.currentSession != nil && at.currentSession.Active
HasActiveSession(at) ==
  at.currentSession # <<>> /\ at.currentSession[1].Active

\* shouldMergeWithLastSession with the threshold itself excluded
shouldMergeWithLastSession_BelowThreshold(at) ==
  IF Len(at.sessions) = 0 \/ at.currentSession = <<>>
  THEN FALSE
  ELSE LET lastSession == at.sessions[Len(at.sessions)]
           cur == at.currentSession[1]
       IN IF lastSession.AppClass # cur.AppClass
          THEN FALSE
          ELSE cur.StartTime - lastSession.EndTime < defaultMergeThreshold

shouldMergeWithLastSession(at) ==
  IF Len(at.sessions) = 0 \/ at.currentSession = <<>>
  THEN FALSE
  ELSE LET lastSession == at.sessions[Len(at.sessions)]
           cur == at.currentSession[1]
       IN IF lastSession.AppClass # cur.AppClass
          THEN FALSE
          ELSE cur.StartTime - lastSession.EndTime <= defaultMergeThreshold

\* mergeWithLastSession storing the session as a new entry as well
mergeWithLastSession_AlsoAppends(at) ==
  IF Len(at.sessions) = 0 \/ at.currentSession = <<>>
  THEN at
  ELSE LET n == Len(at.sessions)
           lastSession == at.sessions[n]
           cur == at.currentSession[1]
           merged == [lastSession EXCEPT
                        !.EndTime = cur.EndTime,
                        !.Duration = cur.EndTime - lastSession.StartTime,
                        !.WindowTitle = cur.WindowTitle]
       IN [at EXCEPT !.sessions = Append([at.sessions EXCEPT ![n] = merged], cur)]

\* mergeWithLastSession leaving the Duration of the extended entry as it was
mergeWithLastSession_StaleDuration(at) ==
  IF Len(at.sessions) = 0 \/ at.currentSession = <<>>
  THEN at
  ELSE LET n == Len(at.sessions)
           lastSession == at.sessions[n]
           cur == at.currentSession[1]
           merged == [lastSession EXCEPT
                        !.EndTime = cur.EndTime,
                        !.WindowTitle = cur.WindowTitle]
       IN [at EXCEPT !.sessions = [at.sessions EXCEPT ![n] = merged]]

mergeWithLastSession(at) ==
  IF Len(at.sessions) = 0 \/ at.currentSession = <<>>
  THEN at
  ELSE LET n == Len(at.sessions)
           lastSession == at.sessions[n]
           cur == at.currentSession[1]
           merged == [lastSession EXCEPT
                        !.EndTime = cur.EndTime,
                        !.Duration = cur.EndTime - lastSession.StartTime,
                        !.WindowTitle = cur.WindowTitle]
       IN [at EXCEPT !.sessions = [at.sessions EXCEPT ![n] = merged]]

\* endCurrentSessionUnsafe leaving the ended session marked Active
endCurrentSessionUnsafe_KeepsActive(at, endTime) ==
  IF ~HasActiveSession(at)
  THEN at
  ELSE LET cur == at.currentSession[1]
           ended == [cur EXCEPT !.EndTime = endTime,
                                !.Duration = endTime - cur.StartTime]
           at1 == [at EXCEPT !.currentSession = <<ended>>]
       IN IF ended.Duration >= defaultMinDuration
          THEN IF shouldMergeWithLastSession(at1)
               THEN mergeWithLastSession(at1)
               ELSE [at1 EXCEPT !.sessions = Append(at1.sessions, ended)]
          ELSE at1

\* endCurrentSessionUnsafe testing only for nil, not for the Active flag
endCurrentSessionUnsafe_NoActiveTest(at, endTime) ==
  IF at.currentSession = <<>>
  THEN at
  ELSE LET cur == at.currentSession[1]
           ended == [cur EXCEPT !.EndTime = endTime,
                                !.Duration = endTime - cur.StartTime,
                                !.Active = FALSE]
           at1 == [at EXCEPT !.currentSession = <<ended>>]
       IN IF ended.Duration >= defaultMinDuration
          THEN IF shouldMergeWithLastSession(at1)
               THEN mergeWithLastSession(at1)
               ELSE [at1 EXCEPT !.sessions = Append(at1.sessions, ended)]
          ELSE at1

\* endCurrentSessionUnsafe with the minimum-duration test left out
endCurrentSessionUnsafe_NoMinDuration(at, endTime) ==
  IF ~HasActiveSession(at)
  THEN at
  ELSE LET cur == at.currentSession[1]
           ended == [cur EXCEPT !.EndTime = endTime,
                                !.Duration = endTime - cur.StartTime,
                                !.Active = FALSE]
           at1 == [at EXCEPT !.currentSession = <<ended>>]
       IN IF shouldMergeWithLastSession(at1)
          THEN mergeWithLastSession(at1)
          ELSE [at1 EXCEPT !.sessions = Append(at1.sessions, ended)]

endCurrentSessionUnsafe(at, endTime) ==
  IF ~HasActiveSession(at)
  THEN at
  ELSE LET cur == at.currentSession[1]
           ended == [cur EXCEPT !.EndTime = endTime,
                                !.Duration = endTime - cur.StartTime,
                                !.Active = FALSE]
           at1 == [at EXCEPT !.currentSession = <<ended>>]
       IN IF ended.Duration >= defaultMinDuration
          THEN IF shouldMergeWithLastSession(at1)
               THEN mergeWithLastSession(at1)
               ELSE [at1 EXCEPT !.sessions = Append(at1.sessions, ended)]
          ELSE at1

\* StartSession dropping the open session, unclosed, for an ignored application
StartSessionLocked_NoClose(at, ignored, appClass, windowTitle, t) ==
  IF ignored
  THEN [at EXCEPT !.currentSession = <<>>]
  ELSE [endCurrentSessionUnsafe(at, t) EXCEPT
          !.currentSession = <<ActivitySession(t, appClass, windowTitle)>>]

\* the part of StartSession that runs under the write lock; ignored is the
\* result of the isAppIgnored call made before the lock was taken
StartSessionLocked(at, ignored, appClass, windowTitle, t) ==
  IF ignored
  THEN [endCurrentSessionUnsafe(at, t) EXCEPT !.currentSession = <<>>]
  ELSE [endCurrentSessionUnsafe(at, t) EXCEPT
          !.currentSession = <<ActivitySession(t, appClass, windowTitle)>>]


\* ------------------------------------------------------------------------
\* GetActivitySummaries: a map from application class to ActivitySummary,
\* modelled as a function whose domain is the set of keys
\* ------------------------------------------------------------------------
NoSummaries == [k \in {} |-> 0]

\* FoldSession with TotalDuration assigned instead of accumulated
FoldSession_Overwrite(sums, session) ==
  LET key == session.AppClass
      created == [AppClass |-> session.AppClass,
                  ActivityDetails |-> session.WindowTitle,
                  TotalDuration |-> 0,
                  SessionCount |-> 0,
                  FirstSeen |-> session.StartTime,
                  LastSeen |-> session.EndTime]
      s0 == IF key \in DOMAIN sums THEN sums[key] ELSE created
      s1 == [s0 EXCEPT !.TotalDuration = session.Duration,
                       !.SessionCount = @ + 1]
      s2 == IF session.StartTime < s1.FirstSeen
            THEN [s1 EXCEPT !.FirstSeen = session.StartTime]
            ELSE s1
      s3 == IF session.EndTime > s2.LastSeen
            THEN [s2 EXCEPT !.LastSeen = session.EndTime,
                            !.ActivityDetails = session.WindowTitle]
            ELSE s2
  IN [k \in DOMAIN sums \cup {key} |-> IF k = key THEN s3 ELSE sums[k]]

\* FoldSession keeping the window title of the first session it saw
FoldSession_KeepsFirstTitle(sums, session) ==
  LET key == session.AppClass
      created == [AppClass |-> session.AppClass,
                  ActivityDetails |-> session.WindowTitle,
                  TotalDuration |-> 0,
                  SessionCount |-> 0,
                  FirstSeen |-> session.StartTime,
                  LastSeen |-> session.EndTime]
      s0 == IF key \in DOMAIN sums THEN sums[key] ELSE created
      s1 == [s0 EXCEPT !.TotalDuration = @ + session.Duration,
                       !.SessionCount = @ + 1]
      s2 == IF session.StartTime < s1.FirstSeen
            THEN [s1 EXCEPT !.FirstSeen = session.StartTime]
            ELSE s1
      s3 == IF session.EndTime > s2.LastSeen
            THEN [s2 EXCEPT !.LastSeen = session.EndTime]
            ELSE s2
  IN [k \in DOMAIN sums \cup {key} |-> IF k = key THEN s3 ELSE sums[k]]

\* one iteration of the loop over at.sessions
FoldSession(sums, session) ==
  LET key == session.AppClass
      created == [AppClass |-> session.AppClass,
                  ActivityDetails |-> session.WindowTitle,
                  TotalDuration |-> 0,
                  SessionCount |-> 0,
                  FirstSeen |-> session.StartTime,
                  LastSeen |-> session.EndTime]
      s0 == IF key \in DOMAIN sums THEN sums[key] ELSE created
      s1 == [s0 EXCEPT !.TotalDuration = @ + session.Duration,
                       !.SessionCount = @ + 1]
      s2 == IF session.StartTime < s1.FirstSeen
            THEN [s1 EXCEPT !.FirstSeen = session.StartTime]
            ELSE s1
      s3 == IF session.EndTime > s2.LastSeen
            THEN [s2 EXCEPT !.LastSeen = session.EndTime,
                            !.ActivityDetails = session.WindowTitle]
            ELSE s2
  IN [k \in DOMAIN sums \cup {key} |-> IF k = key THEN s3 ELSE sums[k]]

RECURSIVE FoldSessions(_, _)
FoldSessions(sums, sess) ==
  IF sess = <<>> THEN sums
  ELSE FoldSessions(FoldSession(sums, Head(sess)), Tail(sess))

\* FoldCurrent setting LastSeen only for a summary it creates
FoldCurrent_StaleLastSeen(sums, cur, t) ==
  LET key == cur.AppClass
      created == [AppClass |-> cur.AppClass,
                  ActivityDetails |-> cur.WindowTitle,
                  TotalDuration |-> 0,
                  SessionCount |-> 0,
                  FirstSeen |-> cur.StartTime,
                  LastSeen |-> t]
      s0 == IF key \in DOMAIN sums THEN sums[key] ELSE created
      s1 == [s0 EXCEPT !.TotalDuration = @ + (t - cur.StartTime),
                       !.SessionCount = @ + 1,
                       !.ActivityDetails = cur.WindowTitle]
  IN [k \in DOMAIN sums \cup {key} |-> IF k = key THEN s1 ELSE sums[k]]

\* the contribution of the session that is still open, as of time t
FoldCurrent(sums, cur, t) ==
  LET key == cur.AppClass
      created == [AppClass |-> cur.AppClass,
                  ActivityDetails |-> cur.WindowTitle,
                  TotalDuration |-> 0,
                  SessionCount |-> 0,
                  FirstSeen |-> cur.StartTime,
                  LastSeen |-> t]
      s0 == IF key \in DOMAIN sums THEN sums[key] ELSE created
      s1 == [s0 EXCEPT !.TotalDuration = @ + (t - cur.StartTime),
                       !.SessionCount = @ + 1,
                       !.ActivityDetails = cur.WindowTitle,
                       !.LastSeen = t]
  IN [k \in DOMAIN sums \cup {key} |-> IF k = key THEN s1 ELSE sums[k]]

\* GetActivitySummaries leaving out the session that is still open
GetActivitySummaries_ClosedOnly(at, t) ==
  FoldSessions(NoSummaries, at.sessions)

GetActivitySummaries(at, t) ==
  LET closed == FoldSessions(NoSummaries, at.sessions)
  IN IF HasActiveSession(at)
     THEN FoldCurrent(closed, at.currentSession[1], t)
     ELSE closed

\* ------------------------------------------------------------------------
\* Operations of the tracker, called in any order by any number of
\* goroutines (specification Spec).  A step is one section of a call
\* during which it holds at.mu.  EndCurrentSession, ClearCompletedSessions
\* and GetActivitySummaries are one section.  StartSession is two:
\* isAppIgnored (read lock, released), then the section under the write
\* lock; calls of other goroutines run between the two.  addIgnoredApp
\* changes the tracker in its section under the write lock only.
\* No operation takes an application out of at.ignoredApps
\* (loadIgnoredApps is called by NewActivityTracker only, before the
\* tracker is shared), so an answer "ignored" of isAppIgnored is still
\* right when the write lock is taken, while an answer "not ignored" may
\* be stale.  StartSession is a call whose answer is the one it would get
\* at the moment it takes the write lock; StartSessionCheck and
\* StartSessionRaced are the two sections of a call answered "not
\* ignored", with any calls in between.
\* ------------------------------------------------------------------------
at == Tracker(currentSession, sessions)

Op(name, app) == [op |-> name, app |-> app]

Tick ==
  /\ ticks < MaxTicks
  /\ ticks' = ticks + 1
  /\ \E d \in Deltas : now' = now + d
  /\ lastOp' = Op("Tick", "")
  /\ summaries' = NoSummaries
  /\ UNCHANGED <<trackerVars, loopVars>>
  /\ UNCHANGED <<callVars, lockVars, sinkVars, fnVars>>

StartSession ==
  /\ Len(sessions) < MaxSessions
  /\ \E w \in Windows :
       LET r == StartSessionLocked(at, w[1] \in ignoredApps, w[1], w[2], now)
       IN /\ currentSession' = r.currentSession
          /\ sessions' = r.sessions
          /\ lastOp' = Op("StartSession", w[1])
  /\ summaries' = NoSummaries
  /\ UNCHANGED <<now, ticks, ignoredApps, loopVars>>
  /\ UNCHANGED <<callVars, lockVars, sinkVars, fnVars>>

\* StartSession(app, ..): isAppIgnored(app) answers false and releases the
\* read lock; the call has still to take the write lock
StartSessionCheck ==
  /\ \E app \in Apps \ ignoredApps :
       /\ waiting' = waiting \cup {app}
       /\ lastOp' = Op("isAppIgnored", app)
  /\ summaries' = NoSummaries
  /\ UNCHANGED <<now, ticks, trackerVars, loopVars>>
  /\ UNCHANGED <<lockVars, sinkVars, fnVars>>

\* a StartSession call that was answered "not ignored" takes the write lock
\* after other calls have run; other calls for the application may still
\* wait
StartSessionRaced ==
  /\ Len(sessions) < MaxSessions
  /\ \E w \in Windows :
       /\ w[1] \in waiting
       /\ waiting' \in {waiting, waiting \ {w[1]}}
       /\ LET r == StartSessionLocked(at, FALSE, w[1], w[2], now)
          IN /\ currentSession' = r.currentSession
             /\ sessions' = r.sessions
       /\ lastOp' = Op("StartSessionRaced", w[1])
  /\ summaries' = NoSummaries
  /\ UNCHANGED <<now, ticks, ignoredApps, loopVars>>
  /\ UNCHANGED <<lockVars, sinkVars, fnVars>>

EndCurrentSession ==
  /\ LET r == endCurrentSessionUnsafe(at, now)
     IN /\ currentSession' = r.currentSession
        /\ sessions' = r.sessions
  /\ lastOp' = Op("EndCurrentSession", "")
  /\ summaries' = NoSummaries
  /\ UNCHANGED <<now, ticks, ignoredApps, loopVars>>
  /\ UNCHANGED <<callVars, lockVars, sinkVars, fnVars>>

\* ClearCompletedSessions dropping the open session as well
ClearCompletedSessions_DropsCurrent ==
  /\ sessions' = <<>>
  /\ currentSession' = <<>>
  /\ lastOp' = Op("ClearCompletedSessions", "")
  /\ summaries' = NoSummaries
  /\ UNCHANGED <<now, ticks, ignoredApps, loopVars>>
  /\ UNCHANGED <<callVars, lockVars, sinkVars, fnVars>>

ClearCompletedSessions ==
  /\ sessions' = <<>>
  /\ lastOp' = Op("ClearCompletedSessions", "")
  /\ summaries' = NoSummaries
  /\ UNCHANGED <<now, ticks, currentSession, ignoredApps, loopVars>>
  /\ UNCHANGED <<callVars, lockVars, sinkVars, fnVars>>

\* GetActivitySummaries closing the open session it reports
GetSummaries_ClosesSession ==
  /\ summaries' = GetActivitySummaries(at, now)
  /\ LET r == endCurrentSessionUnsafe(at, now)
     IN /\ currentSession' = r.currentSession
        /\ sessions' = r.sessions
  /\ lastOp' = Op("GetActivitySummaries", "")
  /\ UNCHANGED <<now, ticks, ignoredApps, loopVars>>
  /\ UNCHANGED <<callVars, lockVars, sinkVars, fnVars>>

GetSummaries ==
  /\ summaries' = GetActivitySummaries(at, now)
  /\ lastOp' = Op("GetActivitySummaries", "")
  /\ UNCHANGED <<now, ticks, trackerVars, loopVars>>
  /\ UNCHANGED <<callVars, lockVars, sinkVars, fnVars>>

\* addIgnoredApp from Lock to Unlock: the application is added to the map
\* and no session field is touched.  The saveIgnoredApps call that follows
\* the Unlock reads the map under the read lock and writes the ignore
\* file, which is no state of this specification; it is the step
\* saveIgnoredAppsReturns of MutexSpec.
addIgnoredApp ==
  /\ \E app \in Apps :
       /\ ignoredApps' = ignoredApps \cup {app}
       /\ lastOp' = Op("addIgnoredApp", app)
  /\ summaries' = NoSummaries
  /\ UNCHANGED <<now, ticks, currentSession, sessions, loopVars>>
  /\ UNCHANGED <<callVars, lockVars, sinkVars, fnVars>>

\* NewActivityTracker: no session, no stored session, thresholds at their
\* defaults, and the ignore set loaded from the ignore file
TrackerInit ==
  /\ now = 0
  /\ ticks = 0
  /\ currentSession = <<>>
  /\ sessions = <<>>
  /\ ignoredApps \in SUBSET Apps
  /\ waiting = {}
  /\ summaries = NoSummaries
  /\ lastOp = Op("NewActivityTracker", "")

\* monitorWindowChanges is not running
LoopOff ==
  /\ lpc = "off"
  /\ mode = "none"
  /\ lastAppClass = ""
  /\ lastWindowTitle = ""
  /\ wasIdle = FALSE
  /\ submitResult = NoSummaries

\* a call of the writer: operation, arguments, isAppIgnored's answer, and
\* the time.Now() read under the write lock
Call(name, app, title, ignored) ==
  [op |-> name, app |-> app, title |-> title, ignored |-> ignored, t |-> 0]

NoCall == Call("", "", "", FALSE)

\* no caller goroutine exists
MuOff ==
  /\ pending = ""
  /\ gpc = <<>>
  /\ gcall = <<>>
  /\ holds = <<>>

\* no goroutine is inside a tracker call
LockOff ==
  /\ mu = [writer |-> FALSE, readers |-> 0]
  /\ wpc = "off"
  /\ wcall = NoCall
  /\ committed = Tracker(<<>>, <<>>)
  /\ rpc = <<>>
  /\ racc = <<>>
  /\ MuOff

\* no submission is running
SinkOff ==
  /\ sink = "none"
  /\ hasNativeCredentials = FALSE
  /\ queue = <<>>
  /\ spc = "off"
  /\ attempt = 0
  /\ tryBearerAuth = FALSE
  /\ sent = [native |-> 0, legacy |-> 0, webhook |-> 0]
  /\ slept = [native |-> <<>>, legacy |-> <<>>, webhook |-> <<>>]
  /\ lastResp = ""
  /\ results = <<>>

\* no function is called on its own
FnOff ==
  /\ fn = ""
  /\ arg = <<>>
  /\ returned = FALSE
  /\ ret = <<>>

Init == TrackerInit /\ LoopOff /\ LockOff /\ SinkOff /\ FnOff

Next ==
  \/ Tick
  \/ StartSession
  \/ StartSessionCheck
  \/ StartSessionRaced
  \/ EndCurrentSession
  \/ ClearCompletedSessions
  \/ GetSummaries
  \/ addIgnoredApp

Spec == Init /\ [][Next]_vars

\* ------------------------------------------------------------------------
\* Submission (rescuetime.Client) as far as the control loop depends on it
\* ------------------------------------------------------------------------
\* int(math.Ceil(summary.TotalDuration.Minutes())) for a whole number of seconds
DurationMinutes(total) == (total + 59) \div 60

\* The layouts of time.Format and time.Parse used by the client.  A time is a
\* number of seconds; a formatted time is the tuple of the layout and the
\* fields it prints (day number, hour, minute, second); "" is <<>> and any
\* other text is a tuple of another shape.
DateTimeLayout == "2006-01-02 15:04:05"

RFC3339 == "2006-01-02T15:04:05Z07:00"

SecondsPerDay == 24 * 60 * 60

FormatTime(t, layout) ==
  <<layout, t \div SecondsPerDay, (t % SecondsPerDay) \div 3600,
    (t % 3600) \div 60, t % 60>>

\* time.Parse(layout, value) returns no error
ParseTimeOk(layout, value) ==
  /\ Len(value) = 5
  /\ value[1] = layout
  /\ value[3] \in 0..23
  /\ value[4] \in 0..59
  /\ value[5] \in 0..59

\* the time that time.Parse returns for a value it accepts
ParseTime(value) ==
  value[2] * SecondsPerDay + value[3] * 3600 + value[4] * 60 + value[5]

\* SummaryToPayload with the duration truncated to whole minutes
SummaryToPayload_Floor(summary) ==
  [StartTime |-> FormatTime(summary.FirstSeen, DateTimeLayout),
   Duration |-> summary.TotalDuration \div 60,
   ActivityName |-> summary.AppClass,
   ActivityDetails |-> summary.ActivityDetails]

SummaryToPayload(summary) ==
  [StartTime |-> FormatTime(summary.FirstSeen, DateTimeLayout),
   Duration |-> DurationMinutes(summary.TotalDuration),
   ActivityName |-> summary.AppClass,
   ActivityDetails |-> summary.ActivityDetails]

\* ValidatePayload accepting a duration of any length
ValidatePayload_NoLimit(payload) ==
  /\ payload.ActivityName # ""
  /\ payload.Duration > 0
  /\ payload.StartTime # <<>>
  /\ ParseTimeOk(DateTimeLayout, payload.StartTime)

\* ValidatePayload returns nil
ValidatePayload(payload) ==
  /\ payload.ActivityName # ""
  /\ payload.Duration > 0
  /\ payload.Duration <= MaxOfflineMinutes
  /\ payload.StartTime # <<>>
  /\ ParseTimeOk(DateTimeLayout, payload.StartTime)

\* SubmitActivities: the possible outcomes, one per summary: "skipped" under
\* five minutes; with native credentials "ok" when SubmitNative succeeds, and
\* the legacy path after it failed; on the legacy path "failed" for an
\* invalid payload, else "ok" or "failed" as the sink answers.  The client
\* is made anew for every submission and reads its keys from the
\* environment then, so native is an input of each call.
SubmitActivities(native, sums) ==
  {r \in [DOMAIN sums -> {"ok", "failed", "skipped"}] :
     \A app \in DOMAIN sums :
       IF sums[app].TotalDuration < MinSubmitDuration
       THEN r[app] = "skipped"
       ELSE IF native
            THEN \* SubmitNative succeeds, or fails and the legacy path
                 \* decides
                 \/ r[app] = "ok"
                 \/ IF ~ValidatePayload(SummaryToPayload(sums[app]))
                    THEN r[app] = "failed"
                    ELSE r[app] \in {"ok", "failed"}
            ELSE IF ~ValidatePayload(SummaryToPayload(sums[app]))
                 THEN r[app] = "failed"
                 ELSE r[app] \in {"ok", "failed"}}

\* previewSubmission: prints the payloads, sends nothing
previewSubmission(sums) ==
  [app \in DOMAIN sums |->
     IF sums[app].TotalDuration < MinPreviewDuration
        \/ ~ValidatePayload(SummaryToPayload(sums[app]))
     THEN "skipped"
     ELSE "preview"]

\* ------------------------------------------------------------------------
\* monitorWindowChanges (specification LoopSpec): one goroutine; each case of
\* its select statement is one step.  The idle query answers "err", "idle"
\* (idle time >= threshold) or "active"; the window query answers "err" or a
\* window.
\* ------------------------------------------------------------------------
IdleAnswers == {"err", "idle", "active"}

WindowAnswers == {<<"", "">>} \cup LoopWindows

WindowErr(w) == w = <<"", "">>

LoopTick ==
  /\ lpc = "loop"
  /\ ticks < MaxLoopTicks
  /\ ticks' = ticks + 1
  /\ \E d \in LoopDeltas : now' = now + d
  /\ lastOp' = Op("Tick", "")
  /\ summaries' = NoSummaries
  /\ submitResult' = NoSummaries
  /\ UNCHANGED <<trackerVars, lpc, mode, lastAppClass, lastWindowTitle, wasIdle>>
  /\ UNCHANGED <<callVars, lockVars, sinkVars, fnVars>>

\* from the entry of monitorWindowChanges to the first select
LoopStart ==
  /\ lpc = "start"
  /\ \E w \in WindowAnswers, idle \in IdleAnswers :
       IF WindowErr(w)
       THEN /\ lpc' = "done"
            /\ lastOp' = Op("LoopStart", "")
            /\ UNCHANGED <<currentSession, sessions, lastAppClass, lastWindowTitle, wasIdle>>
       ELSE /\ lpc' = "loop"
            /\ lastOp' = Op("LoopStart", w[1])
            /\ IF idle = "err"
               THEN UNCHANGED <<currentSession, sessions, lastAppClass, lastWindowTitle, wasIdle>>
               ELSE IF idle = "idle"
                    THEN /\ wasIdle' = TRUE
                         /\ UNCHANGED <<currentSession, sessions, lastAppClass, lastWindowTitle>>
                    ELSE LET r == StartSessionLocked(at, w[1] \in ignoredApps, w[1], w[2], now)
                         IN /\ currentSession' = r.currentSession
                            /\ sessions' = r.sessions
                            /\ lastAppClass' = w[1]
                            /\ lastWindowTitle' = w[2]
                            /\ UNCHANGED wasIdle
  /\ summaries' = NoSummaries
  /\ submitResult' = NoSummaries
  /\ UNCHANGED <<now, ticks, ignoredApps, mode>>
  /\ UNCHANGED <<callVars, lockVars, sinkVars, fnVars>>

\* case <-pollTicker.C
PollTick ==
  /\ lpc = "loop"
  /\ \E idle \in IdleAnswers, w \in WindowAnswers :
       IF idle = "idle" /\ ~wasIdle
       THEN \* the user just became idle: end the session, skip the window
            /\ LET r == endCurrentSessionUnsafe(at, now)
               IN /\ currentSession' = r.currentSession
                  /\ sessions' = r.sessions
            /\ wasIdle' = TRUE
            /\ lastOp' = Op("PollTick", "")
            /\ UNCHANGED <<lastAppClass, lastWindowTitle>>
       ELSE IF idle = "idle"
            THEN \* still idle
                 /\ lastOp' = Op("PollTick", "")
                 /\ UNCHANGED <<currentSession, sessions, wasIdle, lastAppClass, lastWindowTitle>>
            ELSE \* idle query failed, or the user is active
                 /\ wasIdle' = IF idle = "active" THEN FALSE ELSE wasIdle
                 /\ lastOp' = Op("PollTick", w[1])
                 /\ IF ~WindowErr(w) /\ (w[1] # lastAppClass \/ w[2] # lastWindowTitle)
                    THEN /\ LET r == StartSessionLocked(at, w[1] \in ignoredApps, w[1], w[2], now)
                            IN /\ currentSession' = r.currentSession
                               /\ sessions' = r.sessions
                         /\ lastAppClass' = w[1]
                         /\ lastWindowTitle' = w[2]
                    ELSE UNCHANGED <<currentSession, sessions, lastAppClass, lastWindowTitle>>
  /\ summaries' = NoSummaries
  /\ submitResult' = NoSummaries
  /\ UNCHANGED <<now, ticks, ignoredApps, lpc, mode>>
  /\ UNCHANGED <<callVars, lockVars, sinkVars, fnVars>>

\* case <-submitChan (the ticker exists in the modes "submit" and "dryrun")
SubmitTick ==
  /\ lpc = "loop"
  /\ mode # "none"
  /\ summaries' = GetActivitySummaries(at, now)
  /\ IF mode = "dryrun"
     THEN submitResult' = previewSubmission(summaries')
     ELSE \E native \in BOOLEAN :
            submitResult' \in SubmitActivities(native, summaries')
  /\ sessions' = <<>>
  /\ lastOp' = Op("SubmitTick", "")
  /\ UNCHANGED <<now, ticks, currentSession, ignoredApps, lpc, mode,
                 lastAppClass, lastWindowTitle, wasIdle>>
  /\ UNCHANGED <<callVars, lockVars, sinkVars, fnVars>>

\* the shutdown case taking the final summaries before it ends the session
Shutdown_SummariesFirst ==
  /\ lpc = "loop"
  /\ summaries' = GetActivitySummaries(at, now)
  /\ LET r == endCurrentSessionUnsafe(at, now)
     IN /\ currentSession' = r.currentSession
        /\ sessions' = r.sessions
  /\ IF mode = "submit"
     THEN \E native \in BOOLEAN :
            submitResult' \in SubmitActivities(native, summaries')
     ELSE IF mode = "dryrun"
          THEN submitResult' = previewSubmission(summaries')
          ELSE submitResult' = NoSummaries
  /\ lpc' = "done"
  /\ lastOp' = Op("Shutdown", "")
  /\ UNCHANGED <<now, ticks, ignoredApps, mode, lastAppClass, lastWindowTitle, wasIdle>>
  /\ UNCHANGED <<callVars, lockVars, sinkVars, fnVars>>

\* case <-sigChan
Shutdown ==
  /\ lpc = "loop"
  /\ LET r == endCurrentSessionUnsafe(at, now)
     IN /\ currentSession' = r.currentSession
        /\ sessions' = r.sessions
        /\ summaries' = GetActivitySummaries(r, now)
  /\ IF mode = "submit"
     THEN \E native \in BOOLEAN :
            submitResult' \in SubmitActivities(native, summaries')
     ELSE IF mode = "dryrun"
          THEN submitResult' = previewSubmission(summaries')
          ELSE submitResult' = NoSummaries
  /\ lpc' = "done"
  /\ lastOp' = Op("Shutdown", "")
  /\ UNCHANGED <<now, ticks, ignoredApps, mode, lastAppClass, lastWindowTitle, wasIdle>>
  /\ UNCHANGED <<callVars, lockVars, sinkVars, fnVars>>

LoopInit ==
  /\ TrackerInit
  /\ lpc = "start"
  /\ mode \in {"submit", "dryrun", "none"}
  /\ lastAppClass = ""
  /\ lastWindowTitle = ""
  /\ wasIdle = FALSE
  /\ submitResult = NoSummaries
  /\ LockOff
  /\ SinkOff
  /\ FnOff

LoopNext ==
  \/ LoopTick
  \/ LoopStart
  \/ PollTick
  \/ SubmitTick
  \/ Shutdown

LoopSpec == LoopInit /\ [][LoopNext]_vars

\* ------------------------------------------------------------------------
\* monitorWindowChanges while one application keeps the focus
\* (specification FocusSpec): from its start the loop is answered with
\* windows of firefox only, under any title; firefox is not ignored and the
\* user is not idle; polls, clock steps and submit ticks fall into the
\* span, which ends when a poll finds another application or an idle user,
\* or at shutdown.
\* ------------------------------------------------------------------------
FocusedApp == "firefox"

\* the loop runs and all it has seen so far is the focused application
InSpan == lpc = "loop" /\ lastAppClass = FocusedApp /\ ~wasIdle

FocusStart ==
  /\ FocusedApp \notin ignoredApps
  /\ LoopStart
  /\ lastAppClass' = FocusedApp

FocusTick ==
  /\ InSpan
  /\ LoopTick

FocusPoll ==
  /\ InSpan
  /\ PollTick

FocusSubmit ==
  /\ InSpan
  /\ SubmitTick

FocusShutdown ==
  /\ InSpan
  /\ Shutdown

FocusNext ==
  \/ FocusStart
  \/ FocusTick
  \/ FocusPoll
  \/ FocusSubmit
  \/ FocusShutdown

FocusSpec == LoopInit /\ [][FocusNext]_vars

\* ------------------------------------------------------------------------
\* The tracker under its lock (specification LockSpec): one writer goroutine
\* calling StartSession, EndCurrentSession and ClearCompletedSessions, and
\* reader goroutines calling GetActivitySummaries, every access to at.mu and
\* every group of field writes being a step of its own.  A waiting writer
\* does not hold up new readers here, which allows more interleavings than
\* sync.RWMutex does.
\* ------------------------------------------------------------------------
Readers == {"r1", "r2"}

\* the clock advances at most MaxLockTicks times
MaxLockTicks == 2

\* amounts of time (seconds) between two steps: less than the minimum
\* duration, the minimum duration
LockDeltas == {5, 10}

lockFrame == <<ignoredApps, callVars, loopVars, sinkVars, fnVars, muVars>>

\* a step inside a call: nothing has been returned
Internal ==
  /\ summaries' = NoSummaries
  /\ lastOp' = Op("", "")

LockTick ==
  /\ ticks < MaxLockTicks
  /\ ticks' = ticks + 1
  /\ \E d \in LockDeltas : now' = now + d
  /\ Internal
  /\ UNCHANGED <<currentSession, sessions, lockVars, lockFrame>>

\* the writer enters a call; StartSession first calls isAppIgnored, which
\* takes and releases the read lock
WriterCall ==
  /\ wpc = "idle"
  /\ ~mu.writer
  /\ \/ /\ Len(sessions) < MaxSessions
        /\ \E w \in Windows :
             wcall' = Call("StartSession", w[1], w[2], w[1] \in ignoredApps)
     \/ wcall' = Call("EndCurrentSession", "", "", FALSE)
     \/ wcall' = Call("ClearCompletedSessions", "", "", FALSE)
  /\ wpc' = "lock"
  /\ Internal
  /\ UNCHANGED <<now, ticks, currentSession, sessions, mu, committed, rpc, racc, lockFrame>>

\* at.mu.Lock() returns, and the writer reads the clock
WriterLock ==
  /\ wpc = "lock"
  /\ ~mu.writer
  /\ mu.readers = 0
  /\ mu' = [mu EXCEPT !.writer = TRUE]
  /\ wcall' = [wcall EXCEPT !.t = now]
  /\ wpc' = IF wcall.op = "ClearCompletedSessions" THEN "clear"
            ELSE IF HasActiveSession(at) THEN "end"
            ELSE IF wcall.op = "StartSession" THEN "set" ELSE "unlock"
  /\ Internal
  /\ UNCHANGED <<now, ticks, currentSession, sessions, committed, rpc, racc, lockFrame>>

\* endCurrentSessionUnsafe: EndTime, Duration and Active are written
WriterMarkEnded ==
  /\ wpc = "end"
  /\ currentSession' = <<[currentSession[1] EXCEPT
                            !.EndTime = wcall.t,
                            !.Duration = wcall.t - currentSession[1].StartTime,
                            !.Active = FALSE]>>
  /\ wpc' = "store"
  /\ Internal
  /\ UNCHANGED <<now, ticks, sessions, mu, wcall, committed, rpc, racc, lockFrame>>

\* endCurrentSessionUnsafe: the ended session is dropped, merged or stored
WriterStore ==
  /\ wpc = "store"
  /\ sessions' = IF currentSession[1].Duration >= defaultMinDuration
                 THEN IF shouldMergeWithLastSession(at)
                      THEN mergeWithLastSession(at).sessions
                      ELSE Append(sessions, currentSession[1])
                 ELSE sessions
  /\ wpc' = IF wcall.op = "StartSession" THEN "set" ELSE "unlock"
  /\ Internal
  /\ UNCHANGED <<now, ticks, currentSession, mu, wcall, committed, rpc, racc, lockFrame>>

\* StartSession: currentSession is set to the new session, or to nil for an
\* ignored application
WriterSetCurrent ==
  /\ wpc = "set"
  /\ currentSession' = IF wcall.ignored
                       THEN <<>>
                       ELSE <<ActivitySession(wcall.t, wcall.app, wcall.title)>>
  /\ wpc' = "unlock"
  /\ Internal
  /\ UNCHANGED <<now, ticks, sessions, mu, wcall, committed, rpc, racc, lockFrame>>

\* ClearCompletedSessions: at.sessions is replaced by an empty slice
WriterClear ==
  /\ wpc = "clear"
  /\ sessions' = <<>>
  /\ wpc' = "unlock"
  /\ Internal
  /\ UNCHANGED <<now, ticks, currentSession, mu, wcall, committed, rpc, racc, lockFrame>>

\* at.mu.Unlock(), and the call returns
WriterUnlock ==
  /\ wpc = "unlock"
  /\ mu' = [mu EXCEPT !.writer = FALSE]
  /\ committed' = at
  /\ wpc' = "idle"
  /\ wcall' = NoCall
  /\ summaries' = NoSummaries
  /\ lastOp' = Op(wcall.op, wcall.app)
  /\ UNCHANGED <<now, ticks, currentSession, sessions, rpc, racc, lockFrame>>

\* at.mu.RLock() returning although a writer holds the lock
ReaderRLock_NoWait(r) ==
  /\ rpc[r] = "idle"
  /\ mu' = [mu EXCEPT !.readers = @ + 1]
  /\ rpc' = [rpc EXCEPT ![r] = "sessions"]
  /\ Internal
  /\ UNCHANGED <<now, ticks, currentSession, sessions, wpc, wcall, committed, racc, lockFrame>>

\* GetActivitySummaries: at.mu.RLock() returns
ReaderRLock(r) ==
  /\ rpc[r] = "idle"
  /\ ~mu.writer
  /\ mu' = [mu EXCEPT !.readers = @ + 1]
  /\ rpc' = [rpc EXCEPT ![r] = "sessions"]
  /\ Internal
  /\ UNCHANGED <<now, ticks, currentSession, sessions, wpc, wcall, committed, racc, lockFrame>>

\* GetActivitySummaries: the loop over at.sessions
ReaderFoldSessions(r) ==
  /\ rpc[r] = "sessions"
  /\ racc' = [racc EXCEPT ![r] = FoldSessions(NoSummaries, sessions)]
  /\ rpc' = [rpc EXCEPT ![r] = "current"]
  /\ Internal
  /\ UNCHANGED <<now, ticks, currentSession, sessions, mu, wpc, wcall, committed, lockFrame>>

\* GetActivitySummaries: the open session is added, the read lock is
\* released and the map is returned
ReaderFoldCurrent(r) ==
  /\ rpc[r] = "current"
  /\ summaries' = IF HasActiveSession(at)
                  THEN FoldCurrent(racc[r], currentSession[1], now)
                  ELSE racc[r]
  /\ racc' = [racc EXCEPT ![r] = NoSummaries]
  /\ mu' = [mu EXCEPT !.readers = @ - 1]
  /\ rpc' = [rpc EXCEPT ![r] = "idle"]
  /\ lastOp' = Op("GetActivitySummaries", "")
  /\ UNCHANGED <<now, ticks, currentSession, sessions, wpc, wcall, committed, lockFrame>>

LockInit ==
  /\ TrackerInit
  /\ LoopOff
  /\ SinkOff
  /\ FnOff
  /\ mu = [writer |-> FALSE, readers |-> 0]
  /\ wpc = "idle"
  /\ wcall = NoCall
  /\ committed = at
  /\ rpc = [r \in Readers |-> "idle"]
  /\ racc = [r \in Readers |-> NoSummaries]
  /\ MuOff

LockNext ==
  \/ LockTick
  \/ WriterCall
  \/ WriterLock
  \/ WriterMarkEnded
  \/ WriterStore
  \/ WriterSetCurrent
  \/ WriterClear
  \/ WriterUnlock
  \/ \E r \in Readers : ReaderRLock(r)
  \/ \E r \in Readers : ReaderFoldSessions(r)
  \/ \E r \in Readers : ReaderFoldCurrent(r)

LockSpec == LockInit /\ [][LockNext]_vars

\* ------------------------------------------------------------------------
\* at.mu and the calls that take it (specifications MutexSpec and
\* MutexFairSpec): caller goroutines make tracker calls in any order, every
\* acquisition and release of at.mu being a step.  sync.RWMutex: Lock()
\* first keeps new readers and writers out, then waits until the readers
\* that hold the lock have left; RLock() waits while a writer holds the
\* lock or waits for it.  What a function does between taking and releasing
\* the lock is part of the step that releases it.
\* ------------------------------------------------------------------------
Goroutines == {"g1", "g2"}

\* a call of a goroutine: the operation called, the function of the tracker
\* it is inside of, its arguments, and isAppIgnored's answer
GoCall(name, inside, app, title) ==
  [op |-> name, fn |-> inside, app |-> app, title |-> title, ignored |-> FALSE]

NoGoCall == GoCall("", "", "", "")

HoldsNothing == [w |-> FALSE, r |-> 0]

\* the contents the ignore file can have
IgnoreFiles == SUBSET Apps

muFrame == <<now, ticks, callVars, wpc, wcall, committed, rpc, racc, loopVars,
            sinkVars, fnVars>>

\* at.mu.RUnlock() by g
RUnlocked(g) ==
  /\ mu' = [mu EXCEPT !.readers = @ - 1]
  /\ holds' = [holds EXCEPT ![g].r = @ - 1]

\* at.mu.Unlock() by g
Unlocked(g) ==
  /\ mu' = [mu EXCEPT !.writer = FALSE]
  /\ holds' = [holds EXCEPT ![g].w = FALSE]

\* the call of g returns
Returned(g) ==
  /\ gpc' = [gpc EXCEPT ![g] = "idle"]
  /\ gcall' = [gcall EXCEPT ![g] = NoGoCall]
  /\ lastOp' = Op(gcall[g].op, gcall[g].app)

\* a goroutine enters a tracker function, up to its first access to at.mu
CallerEnter(g) ==
  /\ gpc[g] = "idle"
  /\ \/ \E w \in Windows :
          /\ gcall' = [gcall EXCEPT ![g] = GoCall("StartSession", "isAppIgnored", w[1], w[2])]
          /\ gpc' = [gpc EXCEPT ![g] = "RLock"]
     \/ \E name \in {"GetActivitySummaries", "saveIgnoredApps"} :
          /\ gcall' = [gcall EXCEPT ![g] = GoCall(name, name, "", "")]
          /\ gpc' = [gpc EXCEPT ![g] = "RLock"]
     \/ \E app \in Apps :
          /\ gcall' = [gcall EXCEPT ![g] = GoCall("isAppIgnored", "isAppIgnored", app, "")]
          /\ gpc' = [gpc EXCEPT ![g] = "RLock"]
     \/ \E name \in {"EndCurrentSession", "ClearCompletedSessions", "loadIgnoredApps"} :
          /\ gcall' = [gcall EXCEPT ![g] = GoCall(name, name, "", "")]
          /\ gpc' = [gpc EXCEPT ![g] = "Lock"]
     \/ \E app \in Apps :
          /\ gcall' = [gcall EXCEPT ![g] = GoCall("addIgnoredApp", "addIgnoredApp", app, "")]
          /\ gpc' = [gpc EXCEPT ![g] = "Lock"]
  /\ summaries' = NoSummaries
  /\ lastOp' = Op("", "")
  /\ UNCHANGED <<currentSession, sessions, ignoredApps, mu, pending, holds, muFrame>>

\* loadIgnoredApps: os.Open fails, and the function returns before it
\* touches at.mu
loadIgnoredAppsNoFile(g) ==
  /\ gpc[g] = "idle"
  /\ summaries' = NoSummaries
  /\ lastOp' = Op("loadIgnoredApps", "")
  /\ UNCHANGED <<currentSession, sessions, ignoredApps, mu, pending, gpc, gcall, holds, muFrame>>

\* at.mu.RLock() returns
RLockReturns(g) ==
  /\ gpc[g] = "RLock"
  /\ ~mu.writer
  /\ pending = ""
  /\ mu' = [mu EXCEPT !.readers = @ + 1]
  /\ holds' = [holds EXCEPT ![g].r = @ + 1]
  /\ gpc' = [gpc EXCEPT ![g] = "RBody"]
  /\ summaries' = NoSummaries
  /\ lastOp' = Op("", "")
  /\ UNCHANGED <<currentSession, sessions, ignoredApps, pending, gcall, muFrame>>

\* isAppIgnored reads at.ignoredApps, releases the read lock and returns;
\* inside StartSession the caller goes on to at.mu.Lock()
isAppIgnoredReturns(g) ==
  /\ gpc[g] = "RBody"
  /\ gcall[g].fn = "isAppIgnored"
  /\ RUnlocked(g)
  /\ IF gcall[g].op = "StartSession"
     THEN /\ gcall' = [gcall EXCEPT ![g].fn = "StartSession",
                                    ![g].ignored = gcall[g].app \in ignoredApps]
          /\ gpc' = [gpc EXCEPT ![g] = "Lock"]
          /\ lastOp' = Op("", "")
     ELSE Returned(g)
  /\ summaries' = NoSummaries
  /\ UNCHANGED <<currentSession, sessions, ignoredApps, pending, muFrame>>

\* GetActivitySummaries builds the map, releases the read lock and returns
GetActivitySummariesReturns(g) ==
  /\ gpc[g] = "RBody"
  /\ gcall[g].fn = "GetActivitySummaries"
  /\ RUnlocked(g)
  /\ Returned(g)
  /\ summaries' = GetActivitySummaries(at, now)
  /\ UNCHANGED <<currentSession, sessions, ignoredApps, pending, muFrame>>

\* saveIgnoredApps writes the file or fails to create it; the deferred
\* RUnlock runs on both paths
saveIgnoredAppsReturns(g) ==
  /\ gpc[g] = "RBody"
  /\ gcall[g].fn = "saveIgnoredApps"
  /\ RUnlocked(g)
  /\ Returned(g)
  /\ summaries' = NoSummaries
  /\ UNCHANGED <<currentSession, sessions, ignoredApps, pending, muFrame>>

\* at.mu.Lock(): from now on no RLock() and no other Lock() goes through
LockAnnounced(g) ==
  /\ gpc[g] = "Lock"
  /\ ~mu.writer
  /\ pending = ""
  /\ pending' = g
  /\ gpc' = [gpc EXCEPT ![g] = "LockWait"]
  /\ summaries' = NoSummaries
  /\ lastOp' = Op("", "")
  /\ UNCHANGED <<currentSession, sessions, ignoredApps, mu, gcall, holds, muFrame>>

\* at.mu.Lock() returns: the readers have left
LockReturns(g) ==
  /\ gpc[g] = "LockWait"
  /\ mu.readers = 0
  /\ mu' = [mu EXCEPT !.writer = TRUE]
  /\ holds' = [holds EXCEPT ![g].w = TRUE]
  /\ pending' = ""
  /\ gpc' = [gpc EXCEPT ![g] = "Body"]
  /\ summaries' = NoSummaries
  /\ lastOp' = Op("", "")
  /\ UNCHANGED <<currentSession, sessions, ignoredApps, gcall, muFrame>>

\* StartSession: the open session is ended, the new one set (or nil for an
\* ignored application), the lock released on either branch
StartSessionReturns(g) ==
  /\ gpc[g] = "Body"
  /\ gcall[g].fn = "StartSession"
  /\ LET r == StartSessionLocked(at, gcall[g].ignored, gcall[g].app, gcall[g].title, now)
     IN /\ currentSession' = r.currentSession
        /\ sessions' = r.sessions
  /\ Unlocked(g)
  /\ Returned(g)
  /\ summaries' = NoSummaries
  /\ UNCHANGED <<ignoredApps, pending, muFrame>>

EndCurrentSessionReturns(g) ==
  /\ gpc[g] = "Body"
  /\ gcall[g].fn = "EndCurrentSession"
  /\ LET r == endCurrentSessionUnsafe(at, now)
     IN /\ currentSession' = r.currentSession
        /\ sessions' = r.sessions
  /\ Unlocked(g)
  /\ Returned(g)
  /\ summaries' = NoSummaries
  /\ UNCHANGED <<ignoredApps, pending, muFrame>>

ClearCompletedSessionsReturns(g) ==
  /\ gpc[g] = "Body"
  /\ gcall[g].fn = "ClearCompletedSessions"
  /\ sessions' = <<>>
  /\ Unlocked(g)
  /\ Returned(g)
  /\ summaries' = NoSummaries
  /\ UNCHANGED <<currentSession, ignoredApps, pending, muFrame>>

\* loadIgnoredApps: at.ignoredApps is replaced by the lines of the file
loadIgnoredAppsReturns(g) ==
  /\ gpc[g] = "Body"
  /\ gcall[g].fn = "loadIgnoredApps"
  /\ ignoredApps' \in IgnoreFiles
  /\ Unlocked(g)
  /\ Returned(g)
  /\ summaries' = NoSummaries
  /\ UNCHANGED <<currentSession, sessions, pending, muFrame>>

\* addIgnoredApp calling saveIgnoredApps with the write lock still held
addIgnoredAppUnlock_SavesLocked(g) ==
  /\ gpc[g] = "Body"
  /\ gcall[g].fn = "addIgnoredApp"
  /\ ignoredApps' = ignoredApps \cup {gcall[g].app}
  /\ gcall' = [gcall EXCEPT ![g].fn = "saveIgnoredApps"]
  /\ gpc' = [gpc EXCEPT ![g] = "RLock"]
  /\ summaries' = NoSummaries
  /\ lastOp' = Op("", "")
  /\ UNCHANGED <<currentSession, sessions, mu, holds, pending, muFrame>>

\* addIgnoredApp: the application is added, the write lock released, and
\* saveIgnoredApps called
addIgnoredAppUnlock(g) ==
  /\ gpc[g] = "Body"
  /\ gcall[g].fn = "addIgnoredApp"
  /\ ignoredApps' = ignoredApps \cup {gcall[g].app}
  /\ Unlocked(g)
  /\ gcall' = [gcall EXCEPT ![g].fn = "saveIgnoredApps"]
  /\ gpc' = [gpc EXCEPT ![g] = "RLock"]
  /\ summaries' = NoSummaries
  /\ lastOp' = Op("", "")
  /\ UNCHANGED <<currentSession, sessions, pending, muFrame>>

MutexInit ==
  /\ TrackerInit
  /\ LoopOff
  /\ SinkOff
  /\ FnOff
  /\ mu = [writer |-> FALSE, readers |-> 0]
  /\ wpc = "off"
  /\ wcall = NoCall
  /\ committed = Tracker(<<>>, <<>>)
  /\ rpc = <<>>
  /\ racc = <<>>
  /\ pending = ""
  /\ gpc = [g \in Goroutines |-> "idle"]
  /\ gcall = [g \in Goroutines |-> NoGoCall]
  /\ holds = [g \in Goroutines |-> HoldsNothing]

\* a step of g inside a call
CallerStep(g) ==
  \/ RLockReturns(g)
  \/ isAppIgnoredReturns(g)
  \/ GetActivitySummariesReturns(g)
  \/ saveIgnoredAppsReturns(g)
  \/ LockAnnounced(g)
  \/ LockReturns(g)
  \/ StartSessionReturns(g)
  \/ EndCurrentSessionReturns(g)
  \/ ClearCompletedSessionsReturns(g)
  \/ loadIgnoredAppsReturns(g)
  \/ addIgnoredAppUnlock(g)

MutexNext ==
  \/ \E g \in Goroutines : CallerEnter(g)
  \/ \E g \in Goroutines : loadIgnoredAppsNoFile(g)
  \/ \E g \in Goroutines : CallerStep(g)

MutexSpec == MutexInit /\ [][MutexNext]_vars

\* the scheduler runs every goroutine that can take a step; a goroutine
\* that waits for at.mu gets it if it is free again and again (sync.Mutex
\* hands the lock to a waiter that has waited for more than 1 ms, and
\* Unlock() lets in the readers that waited before the next writer)
MutexFairSpec == MutexSpec /\ \A g \in Goroutines : SF_vars(CallerStep(g))

\* ------------------------------------------------------------------------
\* The submitting clients, request by request (specification SinkSpec):
\* rescuetime.Client.SubmitActivities with SubmitNative and SubmitLegacy,
\* and webhook.Client.sendPayload.  One step is one iteration of a retry
\* loop: the backoff sleep, the request and the handling of its answer,
\* including the return from the function when the iteration ends it.  The
\* API key is not empty and the payload can be marshalled.
\* ------------------------------------------------------------------------
\* what a request is answered with: a status of the class 2xx, the status
\* 401, another 4xx status, a 5xx status, a status below 200 or of the
\* class 3xx, or no answer (transport error or timeout)
Responses == {"2xx", "401", "4xx", "5xx", "3xx", "err"}

\* at most MaxBatch summaries are handed to SubmitActivities
MaxBatch == 2

\* total durations (seconds) of the summaries handed in: under the five
\* minute floor, at the floor, over the offline-time limit of four hours
SinkDurations == {60, 300, 14460}

\* the last summary, of a window without application class, is invalid for
\* every sink
SinkSummaries ==
  {[AppClass |-> "firefox",
    ActivityDetails |-> "t1",
    TotalDuration |-> d,
    SessionCount |-> 1,
    FirstSeen |-> 0,
    LastSeen |-> d] : d \in SinkDurations}
  \cup {[AppClass |-> "",
         ActivityDetails |-> "t1",
         TotalDuration |-> MinSubmitDuration,
         SessionCount |-> 1,
         FirstSeen |-> 0,
         LastSeen |-> MinSubmitDuration]}

\* the sleep before attempt number a (counted from 0) of a retry loop
Backoff(a) == IF a > 0 THEN baseRetryDelay * 2 ^ (a - 1) ELSE 0

\* time.Sleep(delay) at the head of an iteration, skipped in the first
Sleep(delays, a) == IF a > 0 THEN Append(delays, Backoff(a)) ELSE delays

NoRequests == [native |-> 0, legacy |-> 0, webhook |-> 0]

NoSleeps == [native |-> <<>>, legacy |-> <<>>, webhook |-> <<>>]

sinkFrame ==
  <<now, ticks, trackerVars, callVars, summaries, lastOp, loopVars, lockVars,
    fnVars>>

\* SubmitActivities skipping a summary of exactly five minutes too
SubmitNext_FloorInclusive ==
  /\ spc = "next"
  /\ IF queue = <<>>
     THEN /\ spc' = "done"
          /\ UNCHANGED <<queue, results, sent, slept, lastResp>>
     ELSE LET summary == Head(queue)
          IN IF summary.TotalDuration <= MinSubmitDuration
             THEN /\ results' = Append(results, "skipped")
                  /\ queue' = Tail(queue)
                  /\ UNCHANGED <<spc, sent, slept, lastResp>>
             ELSE /\ sent' = NoRequests
                  /\ slept' = NoSleeps
                  /\ lastResp' = ""
                  /\ IF hasNativeCredentials
                     THEN /\ spc' = "native"
                          /\ UNCHANGED <<queue, results>>
                     ELSE IF ValidatePayload(SummaryToPayload(summary))
                          THEN /\ spc' = "legacy"
                               /\ UNCHANGED <<queue, results>>
                          ELSE /\ results' = Append(results, "failed")
                               /\ queue' = Tail(queue)
                               /\ UNCHANGED spc
  /\ attempt' = 0
  /\ tryBearerAuth' = FALSE
  /\ UNCHANGED <<sink, hasNativeCredentials, sinkFrame>>

\* SubmitActivities: the head of the loop over the summaries, up to the
\* call of SubmitNative or SubmitLegacy
SubmitNext ==
  /\ spc = "next"
  /\ IF queue = <<>>
     THEN /\ spc' = "done"
          /\ UNCHANGED <<queue, results, sent, slept, lastResp>>
     ELSE LET summary == Head(queue)
          IN IF summary.TotalDuration < MinSubmitDuration
             THEN /\ results' = Append(results, "skipped")
                  /\ queue' = Tail(queue)
                  /\ UNCHANGED <<spc, sent, slept, lastResp>>
             ELSE /\ sent' = NoRequests
                  /\ slept' = NoSleeps
                  /\ lastResp' = ""
                  /\ IF hasNativeCredentials
                     THEN /\ spc' = "native"
                          /\ UNCHANGED <<queue, results>>
                     ELSE IF ValidatePayload(SummaryToPayload(summary))
                          THEN /\ spc' = "legacy"
                               /\ UNCHANGED <<queue, results>>
                          ELSE /\ results' = Append(results, "failed")
                               /\ queue' = Tail(queue)
                               /\ UNCHANGED spc
  /\ attempt' = 0
  /\ tryBearerAuth' = FALSE
  /\ UNCHANGED <<sink, hasNativeCredentials, sinkFrame>>

\* SubmitActivities counting a summary as failed as soon as SubmitNative
\* returns an error
SubmitNativeAttempt_NoFallback ==
  /\ spc = "native"
  /\ attempt < maxAPIRetries
  /\ \E resp \in Responses :
       /\ lastResp' = resp
       /\ sent' = [sent EXCEPT !.native = @ + 1]
       /\ slept' = [slept EXCEPT !.native = Sleep(@, attempt)]
       /\ LET success == resp = "2xx"
              bearer == resp = "401" /\ ~tryBearerAuth
              failed == \/ (resp \in {"401", "4xx"} /\ ~bearer)
                        \/ (~success /\ attempt + 1 >= maxAPIRetries)
          IN IF success \/ failed
             THEN /\ results' = Append(results, IF success THEN "ok" ELSE "failed")
                  /\ queue' = Tail(queue)
                  /\ spc' = "next"
                  /\ attempt' = 0
                  /\ tryBearerAuth' = FALSE
             ELSE /\ attempt' = attempt + 1
                  /\ tryBearerAuth' = (tryBearerAuth \/ bearer)
                  /\ UNCHANGED <<spc, queue, results>>
  /\ UNCHANGED <<sink, hasNativeCredentials, sinkFrame>>

\* one iteration of the loop of SubmitNative; when SubmitNative returns an
\* error, SubmitActivities validates the legacy payload and calls
\* SubmitLegacy
SubmitNativeAttempt ==
  /\ spc = "native"
  /\ attempt < maxAPIRetries
  /\ \E resp \in Responses :
       /\ lastResp' = resp
       /\ sent' = [sent EXCEPT !.native = @ + 1]
       /\ slept' = [slept EXCEPT !.native = Sleep(@, attempt)]
       /\ LET success == resp = "2xx"
              bearer == resp = "401" /\ ~tryBearerAuth
              failed == \/ (resp \in {"401", "4xx"} /\ ~bearer)
                        \/ (~success /\ attempt + 1 >= maxAPIRetries)
          IN IF success
             THEN /\ results' = Append(results, "ok")
                  /\ queue' = Tail(queue)
                  /\ spc' = "next"
                  /\ attempt' = 0
                  /\ tryBearerAuth' = FALSE
             ELSE IF failed
                  THEN /\ attempt' = 0
                       /\ tryBearerAuth' = FALSE
                       /\ IF ValidatePayload(SummaryToPayload(Head(queue)))
                          THEN /\ spc' = "legacy"
                               /\ UNCHANGED <<queue, results>>
                          ELSE /\ results' = Append(results, "failed")
                               /\ queue' = Tail(queue)
                               /\ spc' = "next"
                  ELSE /\ attempt' = attempt + 1
                       /\ tryBearerAuth' = (tryBearerAuth \/ bearer)
                       /\ UNCHANGED <<spc, queue, results>>
  /\ UNCHANGED <<sink, hasNativeCredentials, sinkFrame>>

\* the loop of SubmitLegacy making one attempt more than maxAPIRetries
SubmitLegacyAttempt_OffByOne ==
  /\ spc = "legacy"
  /\ attempt <= maxAPIRetries
  /\ \E resp \in Responses :
       /\ lastResp' = resp
       /\ sent' = [sent EXCEPT !.legacy = @ + 1]
       /\ slept' = [slept EXCEPT !.legacy = Sleep(@, attempt)]
       /\ LET success == resp = "2xx"
              failed == \/ resp \in {"401", "4xx"}
                        \/ (~success /\ attempt + 1 > maxAPIRetries)
          IN IF success \/ failed
             THEN /\ results' = Append(results, IF success THEN "ok" ELSE "failed")
                  /\ queue' = Tail(queue)
                  /\ spc' = "next"
                  /\ attempt' = 0
             ELSE /\ attempt' = attempt + 1
                  /\ UNCHANGED <<spc, queue, results>>
  /\ UNCHANGED <<sink, hasNativeCredentials, tryBearerAuth, sinkFrame>>

\* one iteration of the loop of SubmitLegacy; its return value decides the
\* outcome of the summary
SubmitLegacyAttempt ==
  /\ spc = "legacy"
  /\ attempt < maxAPIRetries
  /\ \E resp \in Responses :
       /\ lastResp' = resp
       /\ sent' = [sent EXCEPT !.legacy = @ + 1]
       /\ slept' = [slept EXCEPT !.legacy = Sleep(@, attempt)]
       /\ LET success == resp = "2xx"
              failed == \/ resp \in {"401", "4xx"}
                        \/ (~success /\ attempt + 1 >= maxAPIRetries)
          IN IF success \/ failed
             THEN /\ results' = Append(results, IF success THEN "ok" ELSE "failed")
                  /\ queue' = Tail(queue)
                  /\ spc' = "next"
                  /\ attempt' = 0
             ELSE /\ attempt' = attempt + 1
                  /\ UNCHANGED <<spc, queue, results>>
  /\ UNCHANGED <<sink, hasNativeCredentials, tryBearerAuth, sinkFrame>>

\* one iteration of the loop of webhook sendPayload, which sends all the
\* summaries in one payload; attempt counts the iterations completed
sendPayloadAttempt ==
  /\ spc = "webhook"
  /\ attempt < maxRetries
  /\ \E resp \in Responses :
       /\ lastResp' = resp
       /\ sent' = [sent EXCEPT !.webhook = @ + 1]
       /\ slept' = [slept EXCEPT !.webhook = Sleep(@, attempt)]
       /\ LET success == resp = "2xx"
              failed == \/ resp \in {"401", "4xx"}
                        \/ (~success /\ attempt + 1 >= maxRetries)
          IN IF success \/ failed
             THEN /\ results' = Append(results, IF success THEN "ok" ELSE "failed")
                  /\ queue' = <<>>
                  /\ spc' = "done"
                  /\ attempt' = 0
             ELSE /\ attempt' = attempt + 1
                  /\ UNCHANGED <<spc, queue, results>>
  /\ UNCHANGED <<sink, hasNativeCredentials, tryBearerAuth, sinkFrame>>

\* postgres validateSummary returns nil
validateSummary(summary) ==
  /\ summary.AppClass # ""
  /\ summary.TotalDuration > 0
  /\ summary.SessionCount > 0
  /\ summary.FirstSeen # ZeroTime
  /\ summary.LastSeen # ZeroTime
  /\ summary.LastSeen >= summary.FirstSeen

\* postgres SubmitActivities returning at the first summary that fails
SubmitSummary_ReturnsOnError ==
  /\ spc = "postgres"
  /\ IF queue = <<>>
     THEN /\ spc' = "done"
          /\ UNCHANGED <<queue, results>>
     ELSE \E stored \in BOOLEAN :
            IF validateSummary(Head(queue)) /\ stored
            THEN /\ results' = Append(results, "ok")
                 /\ queue' = Tail(queue)
                 /\ UNCHANGED spc
            ELSE /\ results' = Append(results, "failed")
                 /\ spc' = "done"
                 /\ UNCHANGED queue
  /\ UNCHANGED <<sink, hasNativeCredentials, attempt, tryBearerAuth, sent,
                 slept, lastResp, sinkFrame>>

\* postgres SubmitActivities: one iteration of its loop, a call of
\* SubmitSummary, which validates the summary and runs one INSERT that the
\* database stores or not
SubmitSummary ==
  /\ spc = "postgres"
  /\ IF queue = <<>>
     THEN /\ spc' = "done"
          /\ UNCHANGED <<queue, results>>
     ELSE \E stored \in BOOLEAN :
            /\ results' = Append(results,
                 IF validateSummary(Head(queue)) /\ stored THEN "ok" ELSE "failed")
            /\ queue' = Tail(queue)
            /\ UNCHANGED spc
  /\ UNCHANGED <<sink, hasNativeCredentials, attempt, tryBearerAuth, sent,
                 slept, lastResp, sinkFrame>>

\* a client is handed a batch of summaries; the tracker and the control
\* loop take no part
SinkInit ==
  /\ now = 0
  /\ ticks = 0
  /\ currentSession = <<>>
  /\ sessions = <<>>
  /\ ignoredApps = {}
  /\ waiting = {}
  /\ summaries = NoSummaries
  /\ lastOp = Op("SubmitActivities", "")
  /\ LoopOff
  /\ LockOff
  /\ FnOff
  /\ sink \in {"rescuetime", "postgres", "webhook"}
  /\ hasNativeCredentials \in (IF sink = "rescuetime" THEN BOOLEAN ELSE {FALSE})
  /\ queue \in UNION {[1..n -> SinkSummaries] : n \in (IF sink = "webhook" THEN 1 ELSE 0)..MaxBatch}
  /\ spc = CASE sink = "rescuetime" -> "next"
             [] sink = "postgres" -> "postgres"
             [] sink = "webhook" -> "webhook"
  /\ attempt = 0
  /\ tryBearerAuth = FALSE
  /\ sent = NoRequests
  /\ slept = NoSleeps
  /\ lastResp = ""
  /\ results = <<>>

SinkNext ==
  \/ SubmitNext
  \/ SubmitNativeAttempt
  \/ SubmitLegacyAttempt
  \/ SubmitSummary
  \/ sendPayloadAttempt

SinkSpec == SinkInit /\ [][SinkNext]_vars

\* the submitting goroutine keeps running: every request ends within the
\* client's timeout and every sleep is finite
SinkFairSpec == SinkSpec /\ WF_vars(SinkNext)

\* ------------------------------------------------------------------------
\* The conversion and validation functions of the clients, each called on
\* its own with one argument (specification FnSpec).
\* ------------------------------------------------------------------------
\* the texts a caller puts into StartTime: none, a time in the layout of
\* the offline time API, the same time in RFC 3339, a text that is no time,
\* and a time with an hour that does not exist
StartTimes ==
  {<<>>,
   FormatTime(3661, DateTimeLayout),
   FormatTime(3661, RFC3339),
   <<"invalid-format">>,
   <<DateTimeLayout, 0, 25, 0, 0>>}

\* minutes: negative, zero, one, the limit of four hours, just over it, and
\* five hours
PayloadDurations == {0 - 5, 0, 1, MaxOfflineMinutes, MaxOfflineMinutes + 1, 300}

Payloads ==
  [StartTime : StartTimes,
   Duration : PayloadDurations,
   ActivityName : {"", "firefox"},
   ActivityDetails : {"t1"}]

\* seconds: nothing, a second, a minute less and more a second, a minute and
\* a half, a quarter of an hour, four hours and a second more
SummaryDurations == {0, 1, 59, 60, 61, 90, 900, 14400, 14401}

FnSummaries ==
  {[AppClass |-> app,
    ActivityDetails |-> title,
    TotalDuration |-> d,
    SessionCount |-> 1,
    FirstSeen |-> first,
    LastSeen |-> first + d] :
     app \in {"", "firefox"}, title \in {"", "t1"}, d \in SummaryDurations,
     first \in {0, 3661, 90061}}

\* the maps of summaries the control loop hands to previewSubmission and to
\* SubmitActivities: per application a total of half a minute, a minute and
\* a half, or five minutes
MapDurations == {30, 90, MinSubmitDuration}

SummaryMaps ==
  UNION {[keys -> MapDurations] : keys \in SUBSET {"firefox", "code"}}

SummariesOf(durations) ==
  [app \in DOMAIN durations |->
     [AppClass |-> app,
      ActivityDetails |-> "t1",
      TotalDuration |-> durations[app],
      SessionCount |-> 1,
      FirstSeen |-> 0,
      LastSeen |-> durations[app]]]

\* the applications whose payload previewSubmission prints
Previewed(sums) == {app \in DOMAIN sums : previewSubmission(sums)[app] = "preview"}

\* the applications for whose summary SubmitActivities sends a request
\* (SubmitNative with native credentials, SubmitLegacy without): those whose
\* outcome depends on the answer of the sink
Requested(native, sums) ==
  {app \in DOMAIN sums : \E r \in SubmitActivities(native, sums) : r[app] = "ok"}

\* The duration chunker.  chunkFrom cuts chunks of the chunk size off
\* the front of what remains of the summary, each with the window that
\* follows the window of the chunk before; the last chunk takes the
\* remainder and ends where the summary ends.

\* chunkFrom ending the last chunk after its own duration
RECURSIVE chunkFrom_ShortLast(_, _, _, _)
chunkFrom_ShortLast(summary, cap, start, remaining) ==
  IF remaining <= cap
  THEN <<[summary EXCEPT !.TotalDuration = remaining,
                         !.FirstSeen = start,
                         !.LastSeen = start + remaining]>>
  ELSE <<[summary EXCEPT !.TotalDuration = cap,
                         !.FirstSeen = start,
                         !.LastSeen = start + cap]>>
       \o chunkFrom_ShortLast(summary, cap, start + cap, remaining - cap)

RECURSIVE chunkFrom(_, _, _, _)
chunkFrom(summary, cap, start, remaining) ==
  IF remaining <= cap
  THEN <<[summary EXCEPT !.TotalDuration = remaining,
                         !.FirstSeen = start]>>
  ELSE <<[summary EXCEPT !.TotalDuration = cap,
                         !.FirstSeen = start,
                         !.LastSeen = start + cap]>>
       \o chunkFrom(summary, cap, start + cap, remaining - cap)

\* chunk: a summary of at most maxChunkDuration (four hours, the
\* maxOfflineDuration of the tests) is returned as it is; a longer one is
\* cut into pieces of the chunk size, the size a margin below the maximum,
\* which the tests require of the constant chunkSize
chunk(summary, maxChunkDuration, chunkSize) ==
  IF summary.TotalDuration <= maxChunkDuration
  THEN <<summary>>
  ELSE chunkFrom(summary, chunkSize, summary.FirstSeen,
                 summary.TotalDuration)

\* the cap: the four hours of the offline time API
ChunkCaps == {MaxOfflineMinutes * 60}

\* the chunk sizes the tests leave open: under the cap and at least three
\* hours (TestChunkSizeIsUnderLimit), and large enough for ten hours to
\* make three chunks (3 h 20 min, 3 h 55 min)
ChunkSizes == {MaxOfflineMinutes * 60 - 2400, MaxOfflineMinutes * 60 - 300}

\* total durations in seconds: two hours, four hours, a second more, six,
\* eight and ten hours
ChunkDurations == {7200, 14400, 14401, 21600, 28800, 36000}

\* summaries whose window is as long as their total duration or ten minutes
\* longer, with the cap and the chunk size they are chunked with
ChunkInputs ==
  {[summary |-> [AppClass |-> "steam",
                 ActivityDetails |-> "Gaming",
                 TotalDuration |-> d,
                 SessionCount |-> n,
                 FirstSeen |-> first,
                 LastSeen |-> first + d + gap],
    cap |-> c,
    size |-> z] :
     d \in ChunkDurations, n \in {1, 3}, first \in {0, 3661},
     gap \in {0, 600}, c \in ChunkCaps, z \in ChunkSizes}

\* The payload validator for a payload with an explicit end time: exactly
\* one of duration and end time is given (a duration of 0 and an end time
\* of "" are not given); a duration is positive and at most four hours; an
\* end time is written like the start time, later than it, and at most four
\* hours later.

\* the validator accepting an end time equal to the start time
ValidateEndTimePayload_AllowsEqual(payload) ==
  /\ payload.ActivityName # ""
  /\ payload.StartTime # <<>>
  /\ ParseTimeOk(DateTimeLayout, payload.StartTime)
  /\ ~(payload.Duration = 0 /\ payload.EndTime = <<>>)
  /\ ~(payload.Duration # 0 /\ payload.EndTime # <<>>)
  /\ payload.Duration # 0 =>
       (payload.Duration > 0 /\ payload.Duration <= MaxOfflineMinutes)
  /\ payload.EndTime # <<>> =>
       /\ ParseTimeOk(DateTimeLayout, payload.EndTime)
       /\ ParseTime(payload.EndTime) >= ParseTime(payload.StartTime)
       /\ ParseTime(payload.EndTime) - ParseTime(payload.StartTime)
            <= MaxOfflineMinutes * 60

ValidateEndTimePayload(payload) ==
  /\ payload.ActivityName # ""
  /\ payload.StartTime # <<>>
  /\ ParseTimeOk(DateTimeLayout, payload.StartTime)
  /\ ~(payload.Duration = 0 /\ payload.EndTime = <<>>)
  /\ ~(payload.Duration # 0 /\ payload.EndTime # <<>>)
  /\ payload.Duration # 0 =>
       (payload.Duration > 0 /\ payload.Duration <= MaxOfflineMinutes)
  /\ payload.EndTime # <<>> =>
       /\ ParseTimeOk(DateTimeLayout, payload.EndTime)
       /\ ParseTime(payload.EndTime) > ParseTime(payload.StartTime)
       /\ ParseTime(payload.EndTime) - ParseTime(payload.StartTime)
            <= MaxOfflineMinutes * 60

\* end times: none, an hour before 10:00:00, 10:00:00, half an hour, four
\* hours and five hours after it, and half an hour after it in RFC 3339
EndTimes ==
  {<<>>,
   FormatTime(32400, DateTimeLayout),
   FormatTime(36000, DateTimeLayout),
   FormatTime(37800, DateTimeLayout),
   FormatTime(50400, DateTimeLayout),
   FormatTime(54000, DateTimeLayout),
   FormatTime(37800, RFC3339)}

EndTimePayloads ==
  [StartTime : {<<>>, FormatTime(36000, DateTimeLayout), FormatTime(36000, RFC3339)},
   EndTime : EndTimes,
   Duration : {0 - 5, 0, 30, 300},
   ActivityName : {"", "firefox"},
   ActivityDetails : {"GitHub"}]

fnFrame ==
  <<now, ticks, trackerVars, callVars, summaries, lastOp, loopVars, lockVars,
    sinkVars>>

CallValidatePayload ==
  /\ fn = "ValidatePayload"
  /\ ~returned
  /\ ret' = ValidatePayload(arg)
  /\ returned' = TRUE
  /\ UNCHANGED <<fn, arg, fnFrame>>

CallSummaryToPayload ==
  /\ fn = "SummaryToPayload"
  /\ ~returned
  /\ ret' = SummaryToPayload(arg)
  /\ returned' = TRUE
  /\ UNCHANGED <<fn, arg, fnFrame>>

\* the control loop in dry-run mode and in submit mode, on the same map
CallPreviewSubmission ==
  /\ fn = "previewSubmission"
  /\ ~returned
  /\ \E native \in BOOLEAN :
       ret' = [previewed |-> Previewed(SummariesOf(arg)),
               requested |-> Requested(native, SummariesOf(arg))]
  /\ returned' = TRUE
  /\ UNCHANGED <<fn, arg, fnFrame>>

Callchunk ==
  /\ fn = "chunk"
  /\ ~returned
  /\ ret' = chunk(arg.summary, arg.cap, arg.size)
  /\ returned' = TRUE
  /\ UNCHANGED <<fn, arg, fnFrame>>

CallValidateEndTimePayload ==
  /\ fn = "ValidateEndTimePayload"
  /\ ~returned
  /\ ret' = ValidateEndTimePayload(arg)
  /\ returned' = TRUE
  /\ UNCHANGED <<fn, arg, fnFrame>>

\* a function is about to be called with an argument
FnInit ==
  /\ now = 0
  /\ ticks = 0
  /\ currentSession = <<>>
  /\ sessions = <<>>
  /\ ignoredApps = {}
  /\ waiting = {}
  /\ summaries = NoSummaries
  /\ lastOp = Op("call", "")
  /\ LoopOff
  /\ LockOff
  /\ SinkOff
  /\ returned = FALSE
  /\ ret = <<>>
  /\ \/ fn = "ValidatePayload" /\ arg \in Payloads
     \/ fn = "SummaryToPayload" /\ arg \in FnSummaries
     \/ fn = "previewSubmission" /\ arg \in SummaryMaps
     \/ fn = "chunk" /\ arg \in ChunkInputs
     \/ fn = "ValidateEndTimePayload" /\ arg \in EndTimePayloads

FnNext ==
  \/ CallValidatePayload
  \/ CallSummaryToPayload
  \/ CallPreviewSubmission
  \/ Callchunk
  \/ CallValidateEndTimePayload

FnSpec == FnInit /\ [][FnNext]_vars

\* ------------------------------------------------------------------------
\* Helpers of the properties
\* ------------------------------------------------------------------------
RECURSIVE SumDuration(_)
SumDuration(sess) ==
  IF sess = <<>> THEN 0 ELSE Head(sess).Duration + SumDuration(Tail(sess))

RECURSIVE SumTotalDuration(_, _)
SumTotalDuration(sums, keys) ==
  IF keys = {} THEN 0
  ELSE LET k == CHOOSE x \in keys : TRUE
       IN sums[k].TotalDuration + SumTotalDuration(sums, keys \ {k})

RECURSIVE SumSessionCount(_, _)
SumSessionCount(sums, keys) ==
  IF keys = {} THEN 0
  ELSE LET k == CHOOSE x \in keys : TRUE
       IN sums[k].SessionCount + SumSessionCount(sums, keys \ {k})

\* the stored entries of one application
EntriesOf(app) == {i \in 1..Len(sessions) : sessions[i].AppClass = app}

OpenSessionOf(app) ==
  HasActiveSession(at) /\ currentSession[1].AppClass = app

JustReturnedSummaries == lastOp.op = "GetActivitySummaries"

\* the close rule of section 4.1, as a relation between the list before
\* (sess) and after (sess2) closing the session cur points to at time t
ClosedByRule(cur, sess, sess2, t) ==
  IF cur = <<>> \/ ~cur[1].Active
  THEN sess2 = sess
  ELSE LET c == cur[1]
           n == Len(sess)
           d == t - c.StartTime
       IN IF d < defaultMinDuration
          THEN sess2 = sess
          ELSE IF /\ n > 0
                  /\ sess[n].AppClass = c.AppClass
                  /\ c.StartTime - sess[n].EndTime <= defaultMergeThreshold
               THEN /\ Len(sess2) = n
                    /\ \A i \in 1..(n - 1) : sess2[i] = sess[i]
                    /\ sess2[n].StartTime = sess[n].StartTime
                    /\ sess2[n].AppClass = sess[n].AppClass
                    /\ sess2[n].EndTime = t
                    /\ sess2[n].Duration = t - sess[n].StartTime
                    /\ sess2[n].WindowTitle = c.WindowTitle
               ELSE /\ Len(sess2) = n + 1
                    /\ \A i \in 1..n : sess2[i] = sess[i]
                    /\ sess2[n + 1].StartTime = c.StartTime
                    /\ sess2[n + 1].EndTime = t
                    /\ sess2[n + 1].Duration = d
                    /\ sess2[n + 1].AppClass = c.AppClass
                    /\ sess2[n + 1].WindowTitle = c.WindowTitle
                    /\ ~sess2[n + 1].Active

\* ------------------------------------------------------------------------
\* C1
\* ------------------------------------------------------------------------
\* C1 as stated: no session shorter than minDuration is in the closed-session
\* list, and the sessionCount of every returned summary counts only sessions
\* whose duration (for the open session: its duration up to now) is at least
\* minDuration.
C1_ShortSessionNeverCounted ==
  /\ \A i \in 1..Len(sessions) :
       sessions[i].EndTime - sessions[i].StartTime >= defaultMinDuration
  /\ JustReturnedSummaries =>
       \A app \in DOMAIN summaries :
         summaries[app].SessionCount =
           Cardinality({i \in EntriesOf(app) :
                          sessions[i].EndTime - sessions[i].StartTime >= defaultMinDuration})
           + (IF OpenSessionOf(app) /\ now - currentSession[1].StartTime >= defaultMinDuration
              THEN 1 ELSE 0)

\* C1 amended: no session shorter than minDuration is in the closed-session
\* list, so none is counted as a closed session; the sessionCount of a
\* returned summary is the number of stored entries of the application plus
\* one for the session still open, whatever the open session's duration so far.
C1_ShortSessionNeverStored ==
  /\ \A i \in 1..Len(sessions) :
       /\ sessions[i].EndTime - sessions[i].StartTime >= defaultMinDuration
       /\ sessions[i].Duration = sessions[i].EndTime - sessions[i].StartTime
  /\ JustReturnedSummaries =>
       \A app \in DOMAIN summaries :
         summaries[app].SessionCount =
           Cardinality(EntriesOf(app)) + (IF OpenSessionOf(app) THEN 1 ELSE 0)

\* a summary was returned that counts a stored entry and an open session
\* that has lasted less than minDuration and started 5 s after the entry ended
C1_Witness ==
  /\ JustReturnedSummaries
  /\ HasActiveSession(at)
  /\ now - currentSession[1].StartTime < defaultMinDuration
  /\ currentSession[1].StartTime > 0
  /\ summaries[currentSession[1].AppClass].SessionCount = 2
  /\ \E i \in 1..Len(sessions) :
       sessions[i].EndTime + 5 = currentSession[1].StartTime

\* ------------------------------------------------------------------------
\* C2
\* ------------------------------------------------------------------------
\* C2 as stated: two sessions of one application, each at least minDuration
\* long, the second starting at most mergeThreshold after the first ended,
\* are held as one closed session; so the list never holds two entries of one
\* application whose gap is at most mergeThreshold.
C2_CloseSessionsAreOneEntry ==
  \A i, j \in 1..Len(sessions) :
    (i < j /\ sessions[i].AppClass = sessions[j].AppClass)
      => sessions[j].StartTime - sessions[i].EndTime > defaultMergeThreshold

\* ------------------------------------------------------------------------
\* C3
\* ------------------------------------------------------------------------
\* C3: with no open session, the returned summaries conserve the closed
\* sessions: the total durations sum to the sum of the session durations and
\* the session counts sum to the number of closed sessions.
C3_AggregationConservation ==
  (JustReturnedSummaries /\ ~HasActiveSession(at)) =>
    /\ SumTotalDuration(summaries, DOMAIN summaries) = SumDuration(sessions)
    /\ SumSessionCount(summaries, DOMAIN summaries) = Len(sessions)

\* summaries over three closed sessions of two applications, none open
C3_Witness ==
  /\ JustReturnedSummaries
  /\ ~HasActiveSession(at)
  /\ Len(sessions) = 3
  /\ Cardinality(DOMAIN summaries) = 2
  /\ \E app \in DOMAIN summaries : summaries[app].SessionCount = 2

\* ------------------------------------------------------------------------
\* C4
\* ------------------------------------------------------------------------
\* C4: a StartSession call made for an application that is in the ignore
\* set (its isAppIgnored check answers true) leaves currentSession nil, and the list changes exactly as the close rule
\* says for the session that was open before the call.
C4_IgnoredStartOpensNothing ==
  [][(lastOp'.op = "StartSession" /\ lastOp'.app \in ignoredApps)
       => /\ currentSession' = <<>>
          /\ ClosedByRule(currentSession, sessions, sessions', now)]_vars

\* StartSession for an ignored application has just closed and stored the
\* session that was open, and no session is open
C4_Witness ==
  /\ lastOp.op = "StartSession"
  /\ lastOp.app \in ignoredApps
  /\ currentSession = <<>>
  /\ Len(sessions) = 2
  /\ sessions[2].EndTime = now
  /\ sessions[2].AppClass = sessions[1].AppClass
  /\ sessions[2].AppClass # lastOp.app

\* ------------------------------------------------------------------------
\* C5
\* ------------------------------------------------------------------------
\* C5 as stated: whenever no call is in progress, the open session does not
\* belong to an application of the ignore set.
C5_NoOpenSessionOfIgnoredApp ==
  (waiting = {} /\ HasActiveSession(at))
    => currentSession[1].AppClass \notin ignoredApps

\* ------------------------------------------------------------------------
\* C9
\* ------------------------------------------------------------------------
\* C9 as stated: an application focused before and after an interruption by
\* another application that is shorter than the merge threshold is recorded
\* as one session: the list never holds two entries of one application with
\* an entry of another application between them and less than mergeThreshold
\* from the end of the first to the start of the second.
C9_BriefInterruptionMerged ==
  \A i, j, k \in 1..Len(sessions) :
    (/\ i < k /\ k < j
     /\ sessions[i].AppClass = sessions[j].AppClass
     /\ sessions[k].AppClass # sessions[i].AppClass)
      => sessions[j].StartTime - sessions[i].EndTime >= defaultMergeThreshold

\* ------------------------------------------------------------------------
\* C10
\* ------------------------------------------------------------------------
\* C10 as stated: after addIgnoredApp(app) returns, no session of app is open.
C10_AddIgnoredClosesOpenSession ==
  lastOp.op = "addIgnoredApp" => ~OpenSessionOf(lastOp.app)

\* ------------------------------------------------------------------------
\* C6
\* ------------------------------------------------------------------------
\* C6 as stated, for a failed submission: no step removes a stored closed
\* session whose application's summary failed to be submitted in that step;
\* the session is still stored (possibly extended by a merge) after the step.
C6_FailedSubmissionKeepsSessions ==
  [][\A i \in 1..Len(sessions) :
       \/ \E j \in 1..Len(sessions') :
            /\ sessions'[j].StartTime = sessions[i].StartTime
            /\ sessions'[j].AppClass = sessions[i].AppClass
            /\ sessions'[j].EndTime >= sessions[i].EndTime
       \/ /\ lastOp'.op = "SubmitTick"
          /\ submitResult'[sessions[i].AppClass] # "failed"]_vars

\* ------------------------------------------------------------------------
\* C7
\* ------------------------------------------------------------------------
\* C7 as stated: the poll at which idle clears (wasIdle goes from true to
\* false) and whose window query returns a non-ignored window leaves a
\* session open for that window's application.
C7_ResumesAfterIdle ==
  [][(/\ wasIdle /\ ~wasIdle'
      /\ lastOp'.op = "PollTick"
      /\ lastOp'.app # ""
      /\ lastOp'.app \notin ignoredApps)
       => /\ HasActiveSession(Tracker(currentSession', sessions'))
          /\ currentSession'[1].AppClass = lastOp'.app]_vars

\* ------------------------------------------------------------------------
\* C8
\* ------------------------------------------------------------------------
\* C8 as stated: while the loop considers the user idle, no session is open.
C8_NoSessionWhileIdle ==
  wasIdle => ~HasActiveSession(at)

\* ------------------------------------------------------------------------
\* C11
\* ------------------------------------------------------------------------
\* C11: at most one session is open: no entry of the closed-session list is
\* Active, every entry has ended, and the only session that can be Active
\* is the one currentSession points to, which has then not ended.
C11_OnlyCurrentSessionOpen ==
  /\ \A i \in 1..Len(sessions) :
       /\ ~sessions[i].Active
       /\ sessions[i].EndTime # ZeroTime
  /\ Len(currentSession) <= 1
  /\ HasActiveSession(at) => currentSession[1].EndTime = ZeroTime

\* StartSession has just closed and stored one session and opened another
\* while an earlier entry is stored
C11_Witness ==
  /\ lastOp.op = "StartSession"
  /\ HasActiveSession(at)
  /\ currentSession[1].StartTime = now
  /\ Len(sessions) = 2
  /\ sessions[2].EndTime = now
  /\ sessions[2].AppClass # currentSession[1].AppClass

\* ------------------------------------------------------------------------
\* C12
\* ------------------------------------------------------------------------
\* the list is left as it was
ListUnchanged == sessions' = sessions

\* the list grows by one entry, the session closed now, the others unchanged
ListAppended ==
  /\ Len(sessions') = Len(sessions) + 1
  /\ \A i \in 1..Len(sessions) : sessions'[i] = sessions[i]
  /\ LET e == sessions'[Len(sessions')]
         c == currentSession[1]
     IN /\ e.StartTime = c.StartTime
        /\ e.AppClass = c.AppClass
        /\ e.WindowTitle = c.WindowTitle
        /\ e.EndTime = now
        /\ e.Duration = now - c.StartTime
        /\ ~e.Active

\* the list keeps its length and only the end time, duration and title of
\* its last entry change
ListMerged ==
  /\ Len(sessions') = Len(sessions)
  /\ Len(sessions) > 0
  /\ sessions' # sessions
  /\ \A i \in 1..(Len(sessions) - 1) : sessions'[i] = sessions[i]
  /\ LET n == Len(sessions)
     IN /\ sessions'[n].StartTime = sessions[n].StartTime
        /\ sessions'[n].AppClass = sessions[n].AppClass
        /\ sessions'[n].Active = sessions[n].Active
        /\ sessions'[n].EndTime = now
        /\ sessions'[n].Duration = now - sessions[n].StartTime
        /\ sessions'[n].WindowTitle = currentSession[1].WindowTitle

\* an operation that closes the open session has run
ClosesOpenSession ==
  /\ HasActiveSession(at)
  /\ lastOp'.op \in {"StartSession", "StartSessionRaced", "EndCurrentSession"}

\* C12: a step that closes the open session changes the list in exactly one
\* of three ways: unchanged (only when the session is shorter than
\* minDuration), appended, or merged into the last entry.
C12_CloseChangesListOneWay ==
  [][ClosesOpenSession =>
       /\ ListUnchanged \/ ListAppended \/ ListMerged
       /\ ~(ListUnchanged /\ ListAppended)
       /\ ~(ListUnchanged /\ ListMerged)
       /\ ~(ListAppended /\ ListMerged)
       /\ ListUnchanged <=> (now - currentSession[1].StartTime < defaultMinDuration)]_vars

\* EndCurrentSession has just merged the session into the second of two
\* entries
C12_Witness ==
  /\ lastOp.op = "EndCurrentSession"
  /\ currentSession # <<>>
  /\ ~currentSession[1].Active
  /\ currentSession[1].EndTime = now
  /\ Len(sessions) = 2
  /\ sessions[2].EndTime = now
  /\ sessions[2].StartTime < currentSession[1].StartTime
  /\ sessions[2].AppClass = currentSession[1].AppClass

\* ------------------------------------------------------------------------
\* C13
\* ------------------------------------------------------------------------
\* C13: ClearCompletedSessions empties the list and changes neither
\* currentSession nor the ignore set.
C13_ClearKeepsOpenSession ==
  [][lastOp'.op = "ClearCompletedSessions" =>
       /\ sessions' = <<>>
       /\ currentSession' = currentSession
       /\ ignoredApps' = ignoredApps]_vars

\* ClearCompletedSessions has run while a session that began after time 0
\* is open and an application is ignored
C13_Witness ==
  /\ lastOp.op = "ClearCompletedSessions"
  /\ sessions = <<>>
  /\ HasActiveSession(at)
  /\ currentSession[1].StartTime >= defaultMinDuration
  /\ ignoredApps # {}

\* ------------------------------------------------------------------------
\* C14
\* ------------------------------------------------------------------------
\* C14: GetActivitySummaries changes no tracker field, and the summary of
\* the open session's application has the stored durations of that
\* application plus now - startTime as total, and now as lastSeen.
C14_GetSummariesReadsOnly ==
  [][lastOp'.op = "GetActivitySummaries" =>
       /\ sessions' = sessions
       /\ currentSession' = currentSession
       /\ ignoredApps' = ignoredApps
       /\ HasActiveSession(at) =>
            LET app == currentSession[1].AppClass
                stored == SelectSeq(sessions, LAMBDA e : e.AppClass = app)
            IN /\ app \in DOMAIN summaries'
               /\ summaries'[app].TotalDuration =
                    SumDuration(stored) + (now - currentSession[1].StartTime)
               /\ summaries'[app].LastSeen = now]_vars

\* summaries have just been returned while a session is open for some time
\* and an entry of the same application is stored
C14_Witness ==
  /\ JustReturnedSummaries
  /\ HasActiveSession(at)
  /\ now - currentSession[1].StartTime >= defaultMinDuration
  /\ EntriesOf(currentSession[1].AppClass) # {}
  /\ summaries[currentSession[1].AppClass].LastSeen = now

\* ------------------------------------------------------------------------
\* C15
\* ------------------------------------------------------------------------
\* C15: an EndCurrentSession call made when no session is open, such as a
\* second call after a first, changes neither the list nor currentSession.
C15_EndIsIdempotent ==
  [][(lastOp'.op = "EndCurrentSession" /\ ~HasActiveSession(at)) =>
       /\ sessions' = sessions
       /\ currentSession' = currentSession]_vars

\* EndCurrentSession has run after the session ended earlier at a time the
\* stored entry still shows
C15_Witness ==
  /\ lastOp.op = "EndCurrentSession"
  /\ currentSession # <<>>
  /\ ~currentSession[1].Active
  /\ currentSession[1].EndTime < now
  /\ Len(sessions) > 0
  /\ sessions[Len(sessions)].EndTime = currentSession[1].EndTime

\* ------------------------------------------------------------------------
\* C17
\* ------------------------------------------------------------------------
\* the applications that have a stored entry or the open session
TrackedApps(cur, sess) ==
  {sess[i].AppClass : i \in 1..Len(sess)}
    \cup (IF HasActiveSession(Tracker(cur, sess)) THEN {cur[1].AppClass} ELSE {})

\* C17: the keys of the returned map are exactly the applications with a
\* stored entry or the open session; and an application comes to have an
\* entry or the open session only by a StartSession call for it that found
\* it not ignored, so an application that was ignored at all its
\* StartSession calls never has a summary.
C17_SummaryKeySet ==
  [][/\ lastOp'.op = "GetActivitySummaries" =>
          /\ DOMAIN summaries' = TrackedApps(currentSession', sessions')
          /\ \A app \in DOMAIN summaries' : summaries'[app].AppClass = app
     /\ \A app \in Apps :
          (/\ app \notin TrackedApps(currentSession, sessions)
           /\ app \in TrackedApps(currentSession', sessions'))
            => /\ lastOp'.app = app
               /\ \/ lastOp'.op = "StartSession" /\ app \notin ignoredApps
                  \/ lastOp'.op = "StartSessionRaced" /\ app \in waiting]_vars

\* summaries have just been returned with code as only key: code has a
\* stored entry and the open session, firefox is ignored
C17_Witness ==
  /\ JustReturnedSummaries
  /\ "firefox" \in ignoredApps
  /\ DOMAIN summaries = {"code"}
  /\ Len(sessions) > 0
  /\ HasActiveSession(at)
  /\ summaries["code"].SessionCount = 2

\* ------------------------------------------------------------------------
\* C18
\* ------------------------------------------------------------------------
\* C18: the shutdown case closes the open session by the close rule, takes
\* the summaries of the list as it then is, with nothing from an open
\* session, hands exactly these summaries to one SubmitActivities call when
\* submission is enabled (one outcome per summary) or to the preview in
\* dry-run mode, and returns: the loop takes no step afterwards.
C18_ShutdownOrder ==
  [][/\ lpc # "done"
     /\ lastOp'.op = "Shutdown" =>
          /\ lpc' = "done"
          /\ ClosedByRule(currentSession, sessions, sessions', now)
          /\ ~HasActiveSession(Tracker(currentSession', sessions'))
          /\ summaries' = FoldSessions(NoSummaries, sessions')
          /\ mode = "submit" =>
               \E native \in BOOLEAN :
                 submitResult' \in SubmitActivities(native, summaries')
          /\ mode = "dryrun" => submitResult' = previewSubmission(summaries')
          /\ mode = "none" => submitResult' = NoSummaries]_vars

\* the loop has returned after a shutdown in submit mode that closed and
\* stored the open session and submitted its summary
C18_Witness ==
  /\ lastOp.op = "Shutdown"
  /\ lpc = "done"
  /\ mode = "submit"
  /\ currentSession # <<>>
  /\ currentSession[1].EndTime = now
  /\ Len(sessions) > 0
  /\ sessions[Len(sessions)].EndTime = now
  /\ sessions[Len(sessions)].StartTime = currentSession[1].StartTime
  /\ submitResult[currentSession[1].AppClass] = "ok"

\* ------------------------------------------------------------------------
\* C19
\* ------------------------------------------------------------------------
\* C19: whatever the answers of the sink, SubmitActivities sends at most 3
\* native and at most 3 legacy requests for a summary, and it returns.
C19_SubmissionTerminates ==
  /\ [](sent.native <= 3 /\ sent.legacy <= 3)
  /\ <>(spc = "done")

\* SubmitActivities has returned after two summaries, the second of which
\* failed after three native and three legacy requests
C19_Witness ==
  /\ sink = "rescuetime"
  /\ spc = "done"
  /\ Len(results) = 2
  /\ results[2] = "failed"
  /\ sent.native = 3
  /\ sent.legacy = 3
  /\ lastResp \in {"5xx", "err"}

\* ------------------------------------------------------------------------
\* C20
\* ------------------------------------------------------------------------
\* a request has been sent in this step
RequestSent == sent' # sent /\ sent' # NoRequests

\* the retry loop that sent the request goes on to another attempt
RetryFollows == spc' = spc

\* C20 as stated: a 2xx answer ends the submission with success, a 4xx
\* answer ends it with an error and without another attempt, only a
\* transport error or a 5xx answer is followed by another attempt, and no
\* submission sends more than 3 requests.
C20_OnlyRetryableRetried ==
  [][RequestSent =>
       /\ lastResp' = "2xx" => (~RetryFollows /\ results'[Len(results')] = "ok")
       /\ lastResp' \in {"401", "4xx"} => ~RetryFollows
       /\ RetryFollows => lastResp' \in {"err", "5xx"}
       /\ sent'.native <= 3 /\ sent'.legacy <= 3 /\ sent'.webhook <= 3]_vars

\* ------------------------------------------------------------------------
\* C16
\* ------------------------------------------------------------------------
\* the goroutines that are inside the read-locked part of GetActivitySummaries
Reading == {r \in Readers : rpc[r] # "idle"}

\* C16: readers and the writer exclude each other; while a goroutine reads,
\* the tracker is as the writer's last returned call left it, with no
\* mutation partly applied; and the map a GetActivitySummaries call returns
\* is the summary of that tracker at the time of the return.
C16_ReadersSeeWholeCalls ==
  /\ ~(mu.writer /\ mu.readers > 0)
  /\ mu.readers = Cardinality(Reading)
  /\ Reading # {} => at = committed
  /\ JustReturnedSummaries => summaries = GetActivitySummaries(committed, now)

\* a reader has just returned summaries of a stored entry and the open
\* session while the other reader is still reading and the writer waits
\* for the lock
C16_Witness ==
  /\ JustReturnedSummaries
  /\ wpc = "lock"
  /\ mu.readers = 1
  /\ HasActiveSession(at)
  /\ Len(sessions) > 0
  /\ now > currentSession[1].StartTime
  /\ Cardinality(DOMAIN summaries) = 2

\* ------------------------------------------------------------------------
\* C21
\* ------------------------------------------------------------------------
\* a summary has been counted in this step, as succeeded or as failed
Counted == Len(results') = Len(results) + 1 /\ results'[Len(results')] # "skipped"

\* SubmitNative has returned an error in this step
NativeFailed == spc = "native" /\ spc' # "native" /\ lastResp' # "2xx"

\* C21: with native credentials, a summary whose native submission fails
\* goes through the legacy path before it is counted: it is counted as
\* failed only if its legacy payload is invalid or the legacy submission
\* fails too, and as succeeded if the legacy submission succeeds; after a
\* native success no legacy request is sent for the summary.
C21_NativeFailureFallsBack ==
  [][hasNativeCredentials =>
       /\ NativeFailed =>
            IF ValidatePayload(SummaryToPayload(Head(queue)))
            THEN spc' = "legacy" /\ queue' = queue /\ results' = results
            ELSE Counted /\ results'[Len(results')] = "failed" /\ sent'.legacy = 0
       /\ spc' = "legacy" => (lastResp' # "2xx" /\ sent'.native > 0)
       /\ (Counted /\ results'[Len(results')] = "failed") =>
            \/ ~ValidatePayload(SummaryToPayload(Head(queue)))
            \/ (spc = "legacy" /\ sent'.legacy > 0 /\ lastResp' # "2xx")
       /\ (Counted /\ spc = "legacy") =>
            (results'[Len(results')] = "ok" <=> lastResp' = "2xx")
       /\ (Counted /\ spc = "native") =>
            (results'[Len(results')] = "ok" => lastResp' = "2xx" /\ sent'.legacy = 0)]_vars

\* a summary has been counted as succeeded by the legacy path after three
\* failed native requests
C21_Witness ==
  /\ hasNativeCredentials
  /\ spc = "next"
  /\ results # <<>>
  /\ results[Len(results)] = "ok"
  /\ sent.native = 3
  /\ sent.legacy > 0
  /\ lastResp = "2xx"

\* ------------------------------------------------------------------------
\* C22
\* ------------------------------------------------------------------------
\* the summary at the head of the batch is taken off it in this step and one
\* outcome is recorded for it
HeadSettled ==
  /\ queue # <<>>
  /\ queue' = Tail(queue)
  /\ Len(results') = Len(results) + 1
  /\ SubSeq(results', 1, Len(results)) = results

\* C22: SubmitActivities of the RescueTime and of the PostgreSQL client goes
\* on to the rest of the batch after a summary has failed: it returns only
\* when no summary is left, each summary gets exactly one outcome, and the
\* outcome of a summary of five minutes or more is success or failure.
C22_FailureKeepsBatchGoing ==
  [][(sink \in {"rescuetime", "postgres"}) =>
       /\ \/ (queue' = queue /\ results' = results)
          \/ /\ HeadSettled
             /\ Head(queue).TotalDuration >= MinSubmitDuration =>
                  results'[Len(results')] \in {"ok", "failed"}
       /\ spc' = "done" => Len(queue') = 0]_vars

\* SubmitActivities has returned after a batch of two summaries of which
\* the first failed and the second succeeded
C22_Witness ==
  /\ sink \in {"rescuetime", "postgres"}
  /\ spc = "done"
  /\ results = <<"failed", "ok">>

\* ------------------------------------------------------------------------
\* C23
\* ------------------------------------------------------------------------
\* the loop of SubmitActivities is at the next summary of the batch
AtNextSummary == sink = "rescuetime" /\ spc = "next" /\ queue # <<>>

\* the summary is passed over: no request, no success, no failure
SilentlySkipped ==
  /\ results' = Append(results, "skipped")
  /\ queue' = Tail(queue)
  /\ sent' = sent
  /\ spc' = "next"

\* C23: SubmitActivities passes over a summary exactly when its total
\* duration is under five minutes: it sends no native or legacy request
\* for it and counts it neither as success nor as failure; a summary of
\* exactly five minutes is not passed over.
C23_UnderFiveMinutesSkipped ==
  [][/\ AtNextSummary =>
          (Head(queue).TotalDuration < MinSubmitDuration <=> SilentlySkipped)
     /\ (Len(results') > Len(results) /\ results'[Len(results')] = "skipped") =>
          (AtNextSummary /\ Head(queue).TotalDuration < MinSubmitDuration)]_vars

\* a batch of a summary of one minute and a summary of exactly five
\* minutes: the first has been skipped, the second sent once and accepted
C23_Witness ==
  /\ sink = "rescuetime"
  /\ ~hasNativeCredentials
  /\ spc = "done"
  /\ results = <<"skipped", "ok">>
  /\ sent.legacy = 1

\* ------------------------------------------------------------------------
\* C24
\* ------------------------------------------------------------------------
\* a retry loop has given up in this step after its last attempt
RetriesExhausted(endpoint, limit) ==
  /\ sent'[endpoint] = limit
  /\ sent[endpoint] = limit - 1
  /\ lastResp' \notin {"2xx", "401", "4xx"}

\* C24 as stated: the delays slept before the retries of one submission
\* are in order 1s, 2s, 4s, each double the previous one: what has been
\* slept so far is the beginning of that list, and a submission that has
\* used up its attempts has slept all of it.
C24_BackoffOneTwoFour ==
  [][\A endpoint \in {"native", "legacy", "webhook"} :
       /\ \E n \in 0..3 : slept'[endpoint] = SubSeq(<<1, 2, 4>>, 1, n)
       /\ RetriesExhausted(endpoint, 3) => slept'[endpoint] = <<1, 2, 4>>]_vars

\* ------------------------------------------------------------------------
\* C25
\* ------------------------------------------------------------------------
\* the text is a time written as YYYY-MM-DD HH:MM:SS: it is what the time it
\* denotes is written as in that layout
InDateTimeFormat(text) ==
  /\ Len(text) = 5
  /\ text = FormatTime(ParseTime(text), DateTimeLayout)

\* C25: ValidatePayload returns an error exactly when the activity name is
\* empty, the duration is zero or negative, the duration is over 240
\* minutes, or the start time is empty or not written as
\* YYYY-MM-DD HH:MM:SS; 240 minutes pass, 300 minutes do not.
C25_ValidatePayloadRejects ==
  (fn = "ValidatePayload" /\ returned) =>
    (~ret <=> \/ arg.ActivityName = ""
              \/ arg.Duration <= 0
              \/ arg.Duration > 240
              \/ arg.StartTime = <<>>
              \/ ~InDateTimeFormat(arg.StartTime))

\* a payload of 300 minutes with a name and a well-formed start time has
\* been rejected
C25_Witness ==
  /\ fn = "ValidatePayload"
  /\ returned
  /\ ~ret
  /\ arg.Duration = 300
  /\ arg.ActivityName = "firefox"
  /\ arg.StartTime = FormatTime(3661, DateTimeLayout)

\* ------------------------------------------------------------------------
\* C30
\* ------------------------------------------------------------------------
\* C30: the payload SummaryToPayload returns has as duration the total
\* duration in minutes rounded up, as activity name the application id, the
\* activity details of the summary, and as start time firstSeen.
C30_SummaryToPayloadFields ==
  (fn = "SummaryToPayload" /\ returned) =>
    /\ ret.Duration * 60 >= arg.TotalDuration
    /\ (ret.Duration - 1) * 60 < arg.TotalDuration
    /\ ret.ActivityName = arg.AppClass
    /\ ret.ActivityDetails = arg.ActivityDetails
    /\ InDateTimeFormat(ret.StartTime)
    /\ ParseTime(ret.StartTime) = arg.FirstSeen

\* a summary of 90 seconds first seen at 01:01:01 has been converted to a
\* payload of 2 minutes
C30_Witness ==
  /\ fn = "SummaryToPayload"
  /\ returned
  /\ arg.TotalDuration = 90
  /\ arg.FirstSeen = 3661
  /\ ret.Duration = 2
  /\ ret.StartTime = <<DateTimeLayout, 0, 1, 1, 1>>

\* ------------------------------------------------------------------------
\* C27
\* ------------------------------------------------------------------------
\* C27: the windows of the chunks of a split summary lie in the window of
\* the summary, each begins where the one before ends, the first begins at
\* firstSeen and the last ends at lastSeen of the summary; every chunk has
\* the application id, the activity details and the session count of the
\* summary.
C27_ChunksTileWindow ==
  (fn = "chunk" /\ returned /\ arg.summary.TotalDuration > arg.cap) =>
    /\ Len(ret) > 1
    /\ ret[1].FirstSeen = arg.summary.FirstSeen
    /\ ret[Len(ret)].LastSeen = arg.summary.LastSeen
    /\ \A i \in 1..Len(ret) :
         /\ arg.summary.FirstSeen <= ret[i].FirstSeen
         /\ ret[i].FirstSeen < ret[i].LastSeen
         /\ ret[i].LastSeen <= arg.summary.LastSeen
         /\ ret[i].AppClass = arg.summary.AppClass
         /\ ret[i].ActivityDetails = arg.summary.ActivityDetails
         /\ ret[i].SessionCount = arg.summary.SessionCount
    /\ \A i \in 1..(Len(ret) - 1) : ret[i].LastSeen = ret[i + 1].FirstSeen

\* a summary of ten hours in three sessions, seen over ten hours and ten
\* minutes, has been cut into three chunks, the last of which ends with
\* the summary
C27_Witness ==
  /\ fn = "chunk"
  /\ returned
  /\ arg.summary.TotalDuration = 36000
  /\ arg.summary.SessionCount = 3
  /\ arg.summary.LastSeen = arg.summary.FirstSeen + 36600
  /\ Len(ret) = 3
  /\ ret[3].SessionCount = 3
  /\ ret[3].LastSeen = arg.summary.LastSeen

\* ------------------------------------------------------------------------
\* C28
\* ------------------------------------------------------------------------
\* C28 as stated: on the same map of summaries, the summaries that
\* previewSubmission previews are those for which SubmitActivities sends a
\* request.
C28_PreviewIsWhatIsSubmitted ==
  (fn = "previewSubmission" /\ returned) => ret.previewed = ret.requested

\* ------------------------------------------------------------------------
\* C29
\* ------------------------------------------------------------------------
\* start and end time of the payload are both written as YYYY-MM-DD HH:MM:SS
BothTimesWellFormed ==
  /\ arg.StartTime # <<>>
  /\ arg.EndTime # <<>>
  /\ InDateTimeFormat(arg.StartTime)
  /\ InDateTimeFormat(arg.EndTime)

\* seconds from the start time to the end time of the payload
Span == ParseTime(arg.EndTime) - ParseTime(arg.StartTime)

\* C29: the validator of payloads with an end time accepts a named payload
\* without duration whose well-formed end time is after its start time by
\* at most four hours; it rejects an end time at or before the start time,
\* a payload with both a duration and an end time, a payload with neither,
\* and a span of more than four hours.
C29_EndTimeValidation ==
  (fn = "ValidateEndTimePayload" /\ returned) =>
    /\ (/\ arg.ActivityName # ""
        /\ arg.Duration = 0
        /\ BothTimesWellFormed
        /\ Span > 0
        /\ Span <= 4 * 3600) => ret
    /\ (BothTimesWellFormed /\ Span <= 0) => ~ret
    /\ (arg.Duration # 0 /\ arg.EndTime # <<>>) => ~ret
    /\ (arg.Duration = 0 /\ arg.EndTime = <<>>) => ~ret
    /\ (BothTimesWellFormed /\ Span > 4 * 3600) => ~ret

\* a named payload from 10:00:00 to 10:00:00 without duration has been
\* rejected
C29_Witness ==
  /\ fn = "ValidateEndTimePayload"
  /\ returned
  /\ ~ret
  /\ arg.ActivityName = "firefox"
  /\ arg.Duration = 0
  /\ arg.StartTime = FormatTime(36000, DateTimeLayout)
  /\ arg.EndTime = arg.StartTime

\* ------------------------------------------------------------------------
\* C31
\* ------------------------------------------------------------------------
\* the summaries sums give, for every application, the time boundaries and
\* the title that the tracker (cur, sess) has for it at time t
BoundariesRight(sums, cur, sess, t) ==
  \A app \in DOMAIN sums :
    LET idx == {i \in 1..Len(sess) : sess[i].AppClass = app}
        open == cur # <<>> /\ cur[1].Active /\ cur[1].AppClass = app
        starts == {sess[i].StartTime : i \in idx}
                    \cup (IF open THEN {cur[1].StartTime} ELSE {})
    IN /\ sums[app].FirstSeen \in starts
       /\ \A s \in starts : sums[app].FirstSeen <= s
       /\ IF open
          THEN /\ sums[app].ActivityDetails = cur[1].WindowTitle
               /\ sums[app].LastSeen = t
          ELSE \E i \in idx :
                 /\ \A j \in idx \ {i} : sess[j].EndTime < sess[i].EndTime
                 /\ sums[app].LastSeen = sess[i].EndTime
                 /\ sums[app].ActivityDetails = sess[i].WindowTitle

\* C31: in the summaries the control loop takes (at a submit tick of the
\* tracker as it is, at shutdown of the tracker after the session was
\* ended), firstSeen is the earliest start of the application's sessions;
\* with the open session, activityDetails is its title and lastSeen is now;
\* without, they are the end and the title of the stored session that
\* ended last.
C31_SummaryBoundaries ==
  [][/\ lastOp'.op = "SubmitTick" =>
          BoundariesRight(summaries', currentSession, sessions, now)
     /\ lastOp'.op = "Shutdown" =>
          BoundariesRight(summaries', currentSession', sessions', now)]_vars

\* at shutdown firefox has two stored sessions with different titles, and
\* its summary has the title of the later one and spans both
C31_Witness ==
  /\ lastOp.op = "Shutdown"
  /\ Len(sessions) = 2
  /\ sessions[1].AppClass = "firefox"
  /\ sessions[2].AppClass = "firefox"
  /\ sessions[1].WindowTitle = "t1"
  /\ sessions[2].WindowTitle = "t2"
  /\ summaries["firefox"].ActivityDetails = "t2"
  /\ summaries["firefox"].FirstSeen = sessions[1].StartTime
  /\ summaries["firefox"].LastSeen = sessions[2].EndTime

\* ------------------------------------------------------------------------
\* C32
\* ------------------------------------------------------------------------
\* the summaries the next cycle starts from: what GetActivitySummaries
\* returns for the tracker as the submit tick leaves it
CarriedOver == GetActivitySummaries(at', now')

\* C32 as stated: what the summaries of one submit tick cover is not
\* covered again by the summaries of a later one: nothing that the tracker
\* holds after a submit tick begins before that tick.
C32_NoTimeCountedTwice ==
  [][lastOp'.op = "SubmitTick" =>
       \A app \in DOMAIN CarriedOver : CarriedOver[app].FirstSeen >= now]_vars

\* ------------------------------------------------------------------------
\* C33
\* ------------------------------------------------------------------------
\* C33 as stated: every stored session that a submit tick removes in submit
\* mode is of an application for whose summary SubmitActivities sent a
\* request in that tick, with the credentials the client found or without.
C33_ClearedSessionsWereSubmitted ==
  [][(lastOp'.op = "SubmitTick" /\ mode = "submit") =>
       \A i \in 1..Len(sessions) :
         \E native \in BOOLEAN :
           sessions[i].AppClass \in Requested(native, summaries')]_vars

\* ------------------------------------------------------------------------
\* C34
\* ------------------------------------------------------------------------
\* the summaries of the tracker as this step leaves it
SummariesAfter == GetActivitySummaries(at', now')

\* C34 as stated: when a span of at least minDuration in which one
\* application had the focus and the user was not idle ends, the
\* application has a summary with a total duration above zero, whatever
\* title changes the polls saw during the span.  Checked where no submit
\* tick can have emptied the list during the span: without submission.
C34_FocusTimeTracked ==
  [][(mode = "none" /\ InSpan /\ ~InSpan' /\ now >= defaultMinDuration) =>
       /\ FocusedApp \in DOMAIN SummariesAfter
       /\ SummariesAfter[FocusedApp].TotalDuration > 0]_vars

\* ------------------------------------------------------------------------
\* C35
\* ------------------------------------------------------------------------
\* what GetActivitySummaries would return before this step
SummariesBefore == GetActivitySummaries(at, now)

\* C35 as stated: between two GetActivitySummaries calls with no
\* ClearCompletedSessions in between, no application is lost and no
\* totalDuration or sessionCount gets smaller, whatever sessions were
\* started and ended meanwhile.  Stated step by step: every step other than
\* ClearCompletedSessions keeps each application and does not lower its
\* totals.
C35_SummariesOnlyGrow ==
  [][(lastOp'.op # "ClearCompletedSessions") =>
       \A app \in DOMAIN SummariesBefore :
         /\ app \in DOMAIN SummariesAfter
         /\ SummariesAfter[app].TotalDuration >= SummariesBefore[app].TotalDuration
         /\ SummariesAfter[app].SessionCount >= SummariesBefore[app].SessionCount]_vars

\* ------------------------------------------------------------------------
\* C36
\* ------------------------------------------------------------------------
\* C36: the closed-session list is in time order without overlap: every
\* entry has StartTime <= EndTime and Duration = EndTime - StartTime >=
\* minDuration, each entry ends no later than the next one starts, and an
\* open session starts no earlier than the last entry ends.
C36_SessionsOrdered ==
  /\ \A i \in 1..Len(sessions) :
       /\ sessions[i].StartTime <= sessions[i].EndTime
       /\ sessions[i].Duration = sessions[i].EndTime - sessions[i].StartTime
       /\ sessions[i].Duration >= defaultMinDuration
  /\ \A i \in 1..(Len(sessions) - 1) :
       sessions[i].EndTime <= sessions[i + 1].StartTime
  /\ (HasActiveSession(at) /\ Len(sessions) > 0) =>
       currentSession[1].StartTime >= sessions[Len(sessions)].EndTime

\* two entries, the first of them twice minDuration long, and a session
\* opened when the second ended
C36_Witness ==
  /\ Len(sessions) = 2
  /\ sessions[1].Duration = 2 * defaultMinDuration
  /\ sessions[2].Duration >= defaultMinDuration
  /\ HasActiveSession(at)
  /\ currentSession[1].StartTime = sessions[2].EndTime

\* ------------------------------------------------------------------------
\* C37
\* ------------------------------------------------------------------------
\* C37: no two neighbours in the closed-session list could have been
\* merged: if they are of the same application, the gap between them is
\* above mergeThreshold.
C37_NoMergeableNeighbours ==
  \A i \in 1..(Len(sessions) - 1) :
    sessions[i].AppClass = sessions[i + 1].AppClass =>
      sessions[i + 1].StartTime - sessions[i].EndTime > defaultMergeThreshold

\* two entries of one application, more than mergeThreshold apart
C37_Witness ==
  /\ Len(sessions) = 2
  /\ sessions[1].AppClass = sessions[2].AppClass
  /\ sessions[2].StartTime - sessions[1].EndTime > defaultMergeThreshold

\* ------------------------------------------------------------------------
\* C38
\* ------------------------------------------------------------------------
SummariesNow == GetActivitySummaries(at, now)

\* C38: whenever GetActivitySummaries is called, every summary it returns
\* has FirstSeen <= LastSeen, SessionCount >= 1 and TotalDuration <=
\* LastSeen - FirstSeen.
C38_SummaryWithinItsSpan ==
  \A app \in DOMAIN SummariesNow :
    /\ SummariesNow[app].FirstSeen <= SummariesNow[app].LastSeen
    /\ SummariesNow[app].SessionCount >= 1
    /\ SummariesNow[app].TotalDuration
         <= SummariesNow[app].LastSeen - SummariesNow[app].FirstSeen

\* a returned summary made of a closed and an open session with a pause
\* in between
C38_Witness ==
  /\ JustReturnedSummaries
  /\ \E app \in DOMAIN summaries :
       /\ summaries[app].SessionCount = 2
       /\ HasActiveSession(at)
       /\ currentSession[1].AppClass = app
       /\ currentSession[1].StartTime < now
       /\ 0 < summaries[app].TotalDuration
       /\ summaries[app].TotalDuration < summaries[app].LastSeen - summaries[app].FirstSeen

\* ------------------------------------------------------------------------
\* C39
\* ------------------------------------------------------------------------
\* a goroutine that is about to take at.mu, or waits for it, holds nothing
\* of it
NoLockTakenTwice ==
  \A g \in Goroutines :
    gpc[g] \in {"RLock", "Lock", "LockWait"} => holds[g] = HoldsNothing

\* a goroutine outside a call holds nothing, and at.mu is held by exactly
\* the goroutines that are between a lock and its unlock
EveryLockReleased ==
  /\ \A g \in Goroutines :
       /\ gpc[g] = "idle" => holds[g] = HoldsNothing
       /\ holds[g].w <=> gpc[g] = "Body"
       /\ holds[g].r = (IF gpc[g] = "RBody" THEN 1 ELSE 0)
  /\ mu.writer <=> \E g \in Goroutines : holds[g].w
  /\ mu.readers = Cardinality({g \in Goroutines : holds[g].r = 1})
  /\ ~(mu.writer /\ mu.readers > 0)

\* C39: no tracker operation takes at.mu while its goroutine holds it,
\* every lock taken is released on every path, and with a fair scheduler
\* every call of every goroutine returns, whatever the other goroutines
\* call.
C39_EveryCallReturns ==
  /\ [](NoLockTakenTwice /\ EveryLockReleased)
  /\ \A g \in Goroutines : (gpc[g] # "idle") ~> (gpc[g] = "idle")

\* g1 waits in Lock() of a StartSession call, after its isAppIgnored call
\* has returned, while g2 holds the read lock in the saveIgnoredApps call
\* that addIgnoredApp makes
C39_Witness ==
  /\ pending = "g1"
  /\ gcall["g1"].op = "StartSession"
  /\ gpc["g1"] = "LockWait"
  /\ gcall["g2"].op = "addIgnoredApp"
  /\ gcall["g2"].fn = "saveIgnoredApps"
  /\ holds["g2"].r = 1

====
